---- MODULE Spec2Model ----
(***************************************************************************)
(* A model of the chat controller of AI_DND (src/components/ChatInterface  *)
(* .tsx) together with the dice roller and the level-up modal it mounts.   *)
(*                                                                         *)
(* Reading of the React code: every event handler, timer callback and      *)
(* stream continuation runs to completion as one step.  State setters are  *)
(* applied in program order and functional updaters see the latest state;  *)
(* an updater runs at the call of its setter, which is what                *)
(* handleRegenerateMessage relies on when it reads the history its updater *)
(* captured.                                                               *)
(* A callback created by useCallback reads the state values of the render  *)
(* in which it was created; handleStreamAndProcessRef.current is the       *)
(* callback of the last committed render, so a run of                      *)
(* handleStreamAndProcessInternal reads the state as it was when the       *)
(* stream was started (field cl of a stream record).                       *)
(*                                                                         *)
(* Model text is a sequence of tokens: a narrative token, a command sigil  *)
(* ("DICE_ROLL_REQUEST::", ...) or a payload ("{A}", "null", ...).  A      *)
(* command pattern SIGIL::({.*?}) matches a sigil token immediately        *)
(* followed by a payload token.                                            *)
(***************************************************************************)
EXTENDS Integers, Sequences, FiniteSets, TLC

\* ------------------------------------------------------------------------
\* Program constants
\* ------------------------------------------------------------------------
MAX_AUTO_REGEN_RETRIES == 2

XP_THRESHOLDS == <<0, 100, 300, 600, 1000, 1500, 2100, 2800, 3600, 4500>>

MAX_LEVEL == Len(XP_THRESHOLDS)

BASE_HP_GAIN_PER_LEVEL == 8

BASE_STAT_VALUE == 10

\* JavaScript Infinity (the threshold used once MAX_LEVEL is reached): larger
\* than any experience total the model can reach.
Infinity == 1000000

StatName == {"Strength", "Dexterity", "Constitution", "Intelligence", "Wisdom", "Charisma"}

ItemType == {"weapon", "armor", "potion", "quest", "misc", "food", "key", "book", "currency"}

stackableTypes == {"potion", "misc", "food", "key", "currency"}

INITIAL_SCENE_PROMPT == <<"INITIAL_SCENE_PROMPT">>

FOCUS_PANEL_UPDATE == "FOCUS_PANEL_UPDATE::"

PLAYER_STATUS_UPDATE == "PLAYER_STATUS_UPDATE::"

DICE_ROLL_REQUEST == "DICE_ROLL_REQUEST::"

PLAYER_HP_UPDATE == "PLAYER_HP_UPDATE::"

AWARD_XP == "AWARD_XP::"

LEVEL_UP_INITIATE == "LEVEL_UP_INITIATE::"

AWARD_ITEM == "AWARD_ITEM::"

CONSUME_ITEM == "CONSUME_ITEM::"

Sigils == {FOCUS_PANEL_UPDATE, PLAYER_STATUS_UPDATE, DICE_ROLL_REQUEST, PLAYER_HP_UPDATE,
           AWARD_XP, LEVEL_UP_INITIATE, AWARD_ITEM, CONSUME_ITEM}

\* Stop reasons that make the orchestrator consider the answer incomplete.
TruncatingReasons == {"MAX_TOKENS", "SAFETY", "RECITATION"}

\* ------------------------------------------------------------------------
\* Values
\* ------------------------------------------------------------------------
NULL == "null_value"

NoId == 0

\* A JSON value with its JavaScript typeof tag.
Undef == [t |-> "undefined", n |-> 0, s |-> "", a |-> <<>>]

Num(n) == [t |-> "number", n |-> n, s |-> "", a |-> <<>>]

Str(s) == [t |-> "string", n |-> 0, s |-> s, a |-> <<>>]

Arr(a) == [t |-> "array", n |-> 0, s |-> "", a |-> a]

EmptyObject == [id |-> Undef, statsToRoll |-> Undef, description |-> Undef, hp |-> Undef,
                maxHp |-> Undef, statuses |-> Undef, amount |-> Undef, reason |-> Undef,
                name |-> Undef, type |-> Undef, quantity |-> Undef, keys |-> 0]

\* The payload texts the model of the Game Master can emit.  "{A}" and "{B}"
\* are objects that carry well-formed fields for every command, "{W}" has the
\* fields with wrong types, "{M}" has a numeric hp next to a maxHp that is
\* text, "{L}" is "{A}" with four abilities to roll, "{}" is the empty object
\* and "{!}" is brace delimited text that is not JSON.  "{S}" is "{A}" with a
\* closing brace inside its description string: well-formed JSON whose first
\* "}" is not its last character.
ObjectPayloads == {"{A}", "{B}", "{W}", "{M}", "{L}", "{S}", "{}", "{!}"}

\* What the lazy group ({.*?}) of a command pattern captures of a payload: the
\* text up to the first closing brace.
CaptureGroup(payload) == IF payload = "{S}" THEN "{S" ELSE payload

\* What text.replace(REGEX, '') leaves of the payload.
Unmatched(payload) == IF payload = "{S}" THEN <<"S}">> ELSE <<>>

JSONThrows(tok) == tok \in {"{!}", "{S"}

JSONParse(tok) ==
    CASE tok = "{A}" -> [EmptyObject EXCEPT !.id = Str("X"), !.statsToRoll = Arr(<<"Strength">>),
                            !.description = Str("d"), !.hp = Num(5), !.maxHp = Num(20),
                            !.statuses = Arr(<<"poisoned">>), !.amount = Num(100),
                            !.reason = Str("r"), !.name = Str("Potion"), !.type = Str("potion"),
                            !.quantity = Num(1), !.keys = 11]
      [] tok = "{B}" -> [EmptyObject EXCEPT !.id = Str("Y"),
                            !.statsToRoll = Arr(<<"Dexterity", "Constitution">>),
                            !.description = Str("e"), !.hp = Num(30), !.maxHp = Num(25),
                            !.statuses = Arr(<<>>), !.amount = Num(250),
                            !.reason = Str("q"), !.name = Str("Sword"), !.type = Str("weapon"),
                            !.quantity = Num(2), !.keys = 11]
      [] tok = "{L}" -> [EmptyObject EXCEPT !.id = Str("X"),
                            !.statsToRoll = Arr(<<"Strength", "Dexterity", "Constitution",
                                                  "Wisdom">>),
                            !.description = Str("d"), !.hp = Num(5), !.maxHp = Num(20),
                            !.statuses = Arr(<<"poisoned">>), !.amount = Num(100),
                            !.reason = Str("r"), !.name = Str("Potion"), !.type = Str("potion"),
                            !.quantity = Num(1), !.keys = 11]
      [] tok = "{M}" -> [EmptyObject EXCEPT !.hp = Num(7), !.maxHp = Str("many"), !.keys = 2]
      [] tok = "{W}" -> [EmptyObject EXCEPT !.id = Num(7), !.statsToRoll = Arr(<<"Luck">>),
                            !.description = Str("w"), !.hp = Str("5"), !.maxHp = Str("20"),
                            !.statuses = Str("poisoned"), !.amount = Str("100"),
                            !.reason = Num(1), !.name = Str("Potion"), !.type = Str("gadget"),
                            !.quantity = Num(0), !.keys = 11]
      [] OTHER -> EmptyObject

\* ------------------------------------------------------------------------
\* Command extraction on token text
\* ------------------------------------------------------------------------
RemoveAt(seq, i, n) == SubSeq(seq, 1, i - 1) \o SubSeq(seq, i + n, Len(seq))

SeqIncludes(seq, x) == \E i \in 1..Len(seq) : seq[i] = x

\* cleanPotentialUndefined: drop one trailing "undefined" token.
cleanPotentialUndefined(text) ==
    IF Len(text) > 0 /\ text[Len(text)] = "undefined"
    THEN SubSeq(text, 1, Len(text) - 1)
    ELSE text

\* Position of the first match of /SIGIL::({.*?})/s (or, for the focus
\* pattern, /SIGIL::({.*?}|null)/s); 0 when there is none.
MatchesAt(text, sigil, i) ==
    /\ i < Len(text)
    /\ text[i] = sigil
    /\ \/ text[i + 1] \in ObjectPayloads
       \/ sigil = FOCUS_PANEL_UPDATE /\ text[i + 1] = "null"

RegexMatch(text, sigil) ==
    IF \E i \in 1..Len(text) : MatchesAt(text, sigil, i)
    THEN CHOOSE i \in 1..Len(text) :
            /\ MatchesAt(text, sigil, i)
            /\ \A j \in 1..(i - 1) : ~MatchesAt(text, sigil, j)
    ELSE 0

\* text.replace(REGEX, ''): removes the first match only.
RegexReplace(text, sigil) ==
    LET i == RegexMatch(text, sigil)
    IN IF i = 0 THEN text
       ELSE SubSeq(text, 1, i - 1) \o Unmatched(text[i + 1]) \o SubSeq(text, i + 2, Len(text))

Capture(text, sigil) == CaptureGroup(text[RegexMatch(text, sigil) + 1])

_getDisplayableTextFromPartialAiResponse(aiText) ==
    LET t0 == cleanPotentialUndefined(aiText)
        t1 == RegexReplace(t0, FOCUS_PANEL_UPDATE)
        t2 == RegexReplace(t1, PLAYER_STATUS_UPDATE)
        t3 == RegexReplace(t2, DICE_ROLL_REQUEST)
        t4 == RegexReplace(t3, PLAYER_HP_UPDATE)
        t5 == RegexReplace(t4, AWARD_XP)
        t6 == RegexReplace(t5, LEVEL_UP_INITIATE)
        t7 == RegexReplace(t6, AWARD_ITEM)
    IN RegexReplace(t7, CONSUME_ITEM)

\* ------------------------------------------------------------------------
\* _updateStateAndParseCommands
\* ------------------------------------------------------------------------
None == <<>>

Some(x) == <<x>>

\* parseInt(String(v), 10) || undefined
ParseIntOrUndefined(v) ==
    IF v.t = "string" /\ v.s = "5" THEN Num(5)
    ELSE IF v.t = "string" /\ v.s = "20" THEN Num(20)
    ELSE Undef

InitialResult(text, hp, maxHp, statuses, focus, inventory, xp) ==
    [cleanedText |-> text, newHp |-> hp, newMaxHp |-> maxHp, newStatuses |-> statuses,
     newFocusTargetInfo |-> focus, newDiceRollRequest |-> None, xpAward |-> None,
     levelUpInitiateReason |-> None, itemAward |-> None, itemConsumed |-> None,
     newInventory |-> inventory, newCurrentXP |-> xp]

ParsePlayerHp(r) ==
    IF RegexMatch(r.cleanedText, PLAYER_HP_UPDATE) = 0 THEN r
    ELSE LET tok == Capture(r.cleanedText, PLAYER_HP_UPDATE)
             hpUpdate == JSONParse(tok)
             stripped == RegexReplace(r.cleanedText, PLAYER_HP_UPDATE)
         IN IF JSONThrows(tok) THEN [r EXCEPT !.cleanedText = stripped]
            ELSE [r EXCEPT !.cleanedText = stripped,
                           !.newHp = IF hpUpdate.hp.t = "number" THEN hpUpdate.hp.n ELSE @,
                           !.newMaxHp = IF hpUpdate.maxHp.t = "number" THEN hpUpdate.maxHp.n ELSE @]

ParsePlayerStatus(r) ==
    IF RegexMatch(r.cleanedText, PLAYER_STATUS_UPDATE) = 0 THEN r
    ELSE LET tok == Capture(r.cleanedText, PLAYER_STATUS_UPDATE)
             statusUpdate == JSONParse(tok)
             stripped == RegexReplace(r.cleanedText, PLAYER_STATUS_UPDATE)
         IN IF JSONThrows(tok) THEN [r EXCEPT !.cleanedText = stripped]
            ELSE [r EXCEPT !.cleanedText = stripped,
                           !.newStatuses = IF statusUpdate.statuses.t = "array"
                                           THEN statusUpdate.statuses.a ELSE @]

ValidDiceRollRequest(obj) ==
    /\ obj.statsToRoll.t = "array"
    /\ Len(obj.statsToRoll.a) > 0
    /\ \A i \in 1..Len(obj.statsToRoll.a) : obj.statsToRoll.a[i] \in StatName
    /\ obj.description.t = "string"
    /\ obj.id.t = "string"

ParseDiceRoll(r) ==
    IF RegexMatch(r.cleanedText, DICE_ROLL_REQUEST) = 0 THEN r
    ELSE LET tok == Capture(r.cleanedText, DICE_ROLL_REQUEST)
             obj == JSONParse(tok)
             stripped == RegexReplace(r.cleanedText, DICE_ROLL_REQUEST)
         IN IF JSONThrows(tok) \/ ~ValidDiceRollRequest(obj)
            THEN [r EXCEPT !.cleanedText = stripped]
            ELSE [r EXCEPT !.cleanedText = stripped,
                           !.newDiceRollRequest =
                               Some([id |-> obj.id.s, statsToRoll |-> obj.statsToRoll.a,
                                     description |-> obj.description.s])]

\* The parsed object itself, with hp and maxHp coerced when they are not numbers.
FocusFromObject(obj) ==
    [obj EXCEPT
        !.hp = IF obj.hp.t \notin {"undefined", "number"} THEN ParseIntOrUndefined(obj.hp) ELSE @,
        !.maxHp = IF obj.maxHp.t \notin {"undefined", "number"} THEN ParseIntOrUndefined(obj.maxHp)
                  ELSE @]

\* Variant: an empty object leaves the focus target as it was.
ParseFocusKeepingOnEmpty(r) ==
    IF RegexMatch(r.cleanedText, FOCUS_PANEL_UPDATE) = 0 THEN r
    ELSE LET tok == Capture(r.cleanedText, FOCUS_PANEL_UPDATE)
             obj == JSONParse(tok)
             stripped == RegexReplace(r.cleanedText, FOCUS_PANEL_UPDATE)
         IN IF tok = "null" THEN [r EXCEPT !.cleanedText = stripped, !.newFocusTargetInfo = None]
            ELSE IF JSONThrows(tok) \/ obj.keys = 0 THEN [r EXCEPT !.cleanedText = stripped]
            ELSE [r EXCEPT !.cleanedText = stripped,
                           !.newFocusTargetInfo = Some(FocusFromObject(obj))]

ParseFocus(r) ==
    IF RegexMatch(r.cleanedText, FOCUS_PANEL_UPDATE) = 0 THEN r
    ELSE LET tok == Capture(r.cleanedText, FOCUS_PANEL_UPDATE)
             obj == JSONParse(tok)
             stripped == RegexReplace(r.cleanedText, FOCUS_PANEL_UPDATE)
         IN IF tok = "null" THEN [r EXCEPT !.cleanedText = stripped, !.newFocusTargetInfo = None]
            ELSE IF JSONThrows(tok) THEN [r EXCEPT !.cleanedText = stripped]
            ELSE IF obj.keys = 0
                 THEN [r EXCEPT !.cleanedText = stripped, !.newFocusTargetInfo = None]
            ELSE [r EXCEPT !.cleanedText = stripped,
                           !.newFocusTargetInfo = Some(FocusFromObject(obj))]

ParseAwardXp(r) ==
    IF RegexMatch(r.cleanedText, AWARD_XP) = 0 THEN r
    ELSE LET tok == Capture(r.cleanedText, AWARD_XP)
             xpData == JSONParse(tok)
             stripped == RegexReplace(r.cleanedText, AWARD_XP)
         IN IF JSONThrows(tok) \/ ~(xpData.amount.t = "number" /\ xpData.reason.t = "string")
            THEN [r EXCEPT !.cleanedText = stripped]
            ELSE [r EXCEPT !.cleanedText = stripped,
                           !.xpAward = Some([amount |-> xpData.amount.n, reason |-> xpData.reason.s]),
                           !.newCurrentXP = @ + xpData.amount.n]

\* findIndex over the outcomes of the test on each element: the first index
\* whose test passed, 0 standing for -1.
FindIndex(tests) ==
    IF \E i \in 1..Len(tests) : tests[i]
    THEN CHOOSE i \in 1..Len(tests) : tests[i] /\ \A j \in 1..(i - 1) : ~tests[j]
    ELSE 0

ValidItemAward(d) ==
    /\ d.name.t = "string"
    /\ d.description.t = "string"
    /\ d.type.t = "string" /\ d.type.s \in ItemType
    /\ d.quantity.t = "number" /\ d.quantity.n > 0

\* Variant: an award stacks on the first entry with its name, whatever the
\* category.
AddItemByName(inv, name, type, quantity) ==
    LET Same == [i \in 1..Len(inv) |-> inv[i].name = name]
        existingItemIndex == IF type \in stackableTypes THEN FindIndex(Same) ELSE 0
    IN IF existingItemIndex # 0
       THEN [inv EXCEPT ![existingItemIndex].quantity = @ + quantity]
       ELSE Append(inv, [name |-> name, type |-> type, quantity |-> quantity])

AddItem(inv, name, type, quantity) ==
    LET Same == [i \in 1..Len(inv) |-> inv[i].name = name /\ inv[i].type = type]
        existingItemIndex == IF type \in stackableTypes THEN FindIndex(Same) ELSE 0
    IN IF existingItemIndex # 0
       THEN [inv EXCEPT ![existingItemIndex].quantity = @ + quantity]
       ELSE Append(inv, [name |-> name, type |-> type, quantity |-> quantity])

ParseAwardItem(r) ==
    IF RegexMatch(r.cleanedText, AWARD_ITEM) = 0 THEN r
    ELSE LET tok == Capture(r.cleanedText, AWARD_ITEM)
             itemData == JSONParse(tok)
             stripped == RegexReplace(r.cleanedText, AWARD_ITEM)
         IN IF JSONThrows(tok) \/ ~ValidItemAward(itemData)
            THEN [r EXCEPT !.cleanedText = stripped]
            ELSE [r EXCEPT !.cleanedText = stripped,
                           !.itemAward = Some([name |-> itemData.name.s, type |-> itemData.type.s,
                                               quantity |-> itemData.quantity.n]),
                           !.newInventory = AddItem(@, itemData.name.s, itemData.type.s,
                                                    itemData.quantity.n)]

ValidItemConsume(d) ==
    /\ d.name.t = "string"
    /\ d.quantity.t = "number" /\ d.quantity.n > 0

\* Variant: an entry consumed whole stays, with quantity zero.
RemoveItemKeepingEntry(inv, name, quantity) ==
    LET Named == [i \in 1..Len(inv) |-> inv[i].name = name]
        itemIndex == FindIndex(Named)
    IN IF itemIndex = 0 THEN inv
       ELSE IF inv[itemIndex].quantity >= quantity
            THEN [inv EXCEPT ![itemIndex].quantity = @ - quantity]
       ELSE inv

RemoveItem(inv, name, quantity) ==
    LET Named == [i \in 1..Len(inv) |-> inv[i].name = name]
        itemIndex == FindIndex(Named)
    IN IF itemIndex = 0 THEN inv
       ELSE IF inv[itemIndex].quantity > quantity
            THEN [inv EXCEPT ![itemIndex].quantity = @ - quantity]
       ELSE IF inv[itemIndex].quantity = quantity
            THEN RemoveAt(inv, itemIndex, 1)
       ELSE inv

ParseConsumeItem(r) ==
    IF RegexMatch(r.cleanedText, CONSUME_ITEM) = 0 THEN r
    ELSE LET tok == Capture(r.cleanedText, CONSUME_ITEM)
             itemData == JSONParse(tok)
             stripped == RegexReplace(r.cleanedText, CONSUME_ITEM)
         IN IF JSONThrows(tok) \/ ~ValidItemConsume(itemData)
            THEN [r EXCEPT !.cleanedText = stripped]
            ELSE [r EXCEPT !.cleanedText = stripped,
                           !.itemConsumed = Some([name |-> itemData.name.s,
                                                  quantity |-> itemData.quantity.n]),
                           !.newInventory = RemoveItem(@, itemData.name.s, itemData.quantity.n)]

ParseLevelUpInitiate(r) ==
    IF RegexMatch(r.cleanedText, LEVEL_UP_INITIATE) = 0 THEN r
    ELSE LET tok == Capture(r.cleanedText, LEVEL_UP_INITIATE)
             levelUpData == JSONParse(tok)
             stripped == RegexReplace(r.cleanedText, LEVEL_UP_INITIATE)
         IN IF JSONThrows(tok) \/ levelUpData.reason.t # "string"
            THEN [r EXCEPT !.cleanedText = stripped]
            ELSE [r EXCEPT !.cleanedText = stripped,
                           !.levelUpInitiateReason = Some(levelUpData.reason.s)]

_updateStateAndParseCommands(aiText, hp, maxHp, statuses, focus, inventory, xp) ==
    LET r0 == InitialResult(cleanPotentialUndefined(aiText), hp, maxHp, statuses, focus,
                            inventory, xp)
        \* each block works on the result of the block before it
        results ==
            { ParseLevelUpInitiate(r7) : r7 \in
            { ParseConsumeItem(r6) : r6 \in
            { ParseAwardItem(r5) : r5 \in
            { ParseAwardXp(r4) : r4 \in
            { ParseFocus(r3) : r3 \in
            { ParseDiceRoll(r2) : r2 \in
            { ParsePlayerStatus(r1) : r1 \in
            { ParsePlayerHp(r0) } } } } } } } }
    IN CHOOSE result \in results : TRUE

\* ------------------------------------------------------------------------
\* Bounds of the model
\* ------------------------------------------------------------------------
\* Number of streams started plus clicks on the debug menu in one run.
MaxEvents == 3

\* Number of clicks on the debug "force level up" entry.
MaxForce == 1

\* Number of completed level-ups in one run.
MaxLevelUps == 1

\* Exceptions raised by the Gemini client in the runs that follow them.
MaxFaults == 2

\* Tokens of the arbitrary texts found under SAVE_GAME_KEY at start-up.
MaxStored == 3

\* Entries of the inventory, and the quantity of an entry in halves, in the
\* runs that follow sequences of item commands.
MaxItems == 2

MaxQuantity == 6

\* The level of the character the chat is opened with: a new character, or a
\* loaded one that is one level below the last.
InitialLevels == {1, MAX_LEVEL - 1}

\* The player's typed inputs.
UserInputs == {<<"hello">>}

\* The answers the Game Master can stream, token by token; a stream can also
\* end after any prefix of one of them (a cut-off answer).
Responses ==
    { <<"n">>,
      <<DICE_ROLL_REQUEST, "{A}">>,
      <<DICE_ROLL_REQUEST, "{B}">>,
      <<AWARD_XP, "{A}">> }

FinishReasons == {"STOP", "MAX_TOKENS", "SAFETY", "RECITATION"}

\* What the level-up modal can hand over.
ChoosableStats == {"Constitution", "Strength"}

ChoosableAbilities == {None, Some("ability")}

IsPrefix(a, b) == Len(a) <= Len(b) /\ SubSeq(b, 1, Len(a)) = a

\* ------------------------------------------------------------------------
\* State.  The finishReason and timestamp of a ChatMessage are stored by the
\* program but never read by it; the model leaves them out of the messages.
\* ------------------------------------------------------------------------
VARIABLES
    chatHistory,            \* ChatMessage[]
    isAiTyping,
    chatSession,            \* None or Some(session)
    error,
    focusTargetInfo,
    currentPlayerStatuses,
    currentHp,
    currentMaxHp,
    currentStats,
    currentSkills,
    currentLevel,
    currentXP,
    currentXpToNextLevel,
    currentInventory,
    activeDiceRollRequest,
    isDiceInterfaceActive,
    isLevelUpModalOpen,
    lastResolvedRollIdRef,
    forceLevelUpTrigger,    \* App state, bumped by the debug menu
    apiKeyAvailable,        \* prop
    streams,                \* runs of handleStreamAndProcessInternal awaiting their stream
    regenTimers,            \* pending setTimeout(() => handleRegenerateMessage(...), 500)
    rollerRequest,          \* the request the mounted DiceRoller rolled for
    rollerResults,          \* DiceRoller's results (<<>> before the roll), None where left out
    levelUpModal,           \* the state of the mounted LevelUpModal, None where it is left out
    faults,                 \* exceptions the Gemini client will still raise
    startup,                \* App before the game is on screen, None where it is left out
    nextId,                 \* source of fresh message ids
    levelUps,               \* completed level-ups (bounded by MaxLevelUps)
    resolvedIds,            \* history variable: the roll ids resolved so far
    lastOp                  \* history variable: what the last step did

charVars == <<focusTargetInfo, currentPlayerStatuses, currentHp, currentMaxHp, currentStats,
              currentSkills, currentLevel, currentXP, currentXpToNextLevel, currentInventory>>

\* What App hands down and ChatInterface never sets.
appVars == <<apiKeyAvailable, startup>>

diceVars == <<activeDiceRollRequest, isDiceInterfaceActive, rollerRequest, rollerResults>>

vars == <<chatHistory, isAiTyping, chatSession, error, charVars, diceVars, isLevelUpModalOpen,
          lastResolvedRollIdRef, forceLevelUpTrigger, appVars, faults, levelUpModal, resolvedIds,
          streams, regenTimers, nextId, levelUps, lastOp>>

Msg(id, sender, text, isRegenerating) ==
    [id |-> id, sender |-> sender, text |-> text, isRegenerating |-> isRegenerating]

SystemMsg(note) == Msg(NoId, "system", <<note>>, FALSE)

Placeholder(id) == Msg(id, "ai", <<"...">>, TRUE)

Op(name) == [op |-> name, id |-> NoId, saved |-> FALSE, accepted |-> FALSE, note |-> "",
             prompt |-> <<>>, stream |-> None, truncated |-> FALSE, requested |-> NULL,
             opened |-> FALSE, replaces |-> <<>>, result |-> None,
             character |-> None, report |-> None]

\* The state a callback created in the current render reads.
Closure ==
    [hp |-> currentHp, maxHp |-> currentMaxHp, statuses |-> currentPlayerStatuses,
     focus |-> focusTargetInfo, inventory |-> currentInventory, xp |-> currentXP,
     xpToNextLevel |-> currentXpToNextLevel, level |-> currentLevel,
     isDiceInterfaceActive |-> isDiceInterfaceActive, isLevelUpModalOpen |-> isLevelUpModalOpen]

\* A call handleStreamAndProcessRef.current(chat.sendMessageStream({message: prompt}), ...).
NewStream(aiMessageId, isAutoRegen, retryCountIfAuto, isPostDiceRollResponse, prompt, origin) ==
    [aiMessageId |-> aiMessageId, isAutoRegen |-> isAutoRegen,
     retryCountIfAuto |-> retryCountIfAuto, isPostDiceRollResponse |-> isPostDiceRollResponse,
     prompt |-> prompt, origin |-> origin, completeAiResponseText |-> <<>>, cl |-> Closure]

\* The run may still start a stream or click the debug menu.
WithinBudget == (nextId - 1) + forceLevelUpTrigger < MaxEvents

AnyRegenerating == \E i \in 1..Len(chatHistory) : chatHistory[i].isRegenerating

\* The stats of the character the chat is opened with.
InitialStats == [s \in StatName |-> IF s = "Constitution" THEN 14 ELSE BASE_STAT_VALUE]

\* ChatInterface is mounted for a character of the given level; the Gemini
\* client will raise the given number of exceptions.  Where App's start-up is
\* followed (app is Some), these are the values the hooks take once the game
\* is on screen.
Opened(level, key, exceptions, app) ==
    /\ chatHistory = <<>>
    /\ isAiTyping = FALSE
    /\ chatSession = None
    /\ error = NULL
    /\ focusTargetInfo = None
    /\ currentPlayerStatuses = <<>>
    /\ currentHp = 20
    /\ currentMaxHp = 20
    /\ currentStats = InitialStats
    /\ currentSkills = <<>>
    /\ currentLevel = level
    /\ currentXP = IF currentLevel = 1 THEN 0 ELSE XP_THRESHOLDS[MAX_LEVEL] - 100
    /\ currentXpToNextLevel = XP_THRESHOLDS[currentLevel + 1]
    /\ currentInventory = <<>>
    /\ activeDiceRollRequest = None
    /\ isDiceInterfaceActive = FALSE
    /\ isLevelUpModalOpen = FALSE
    /\ lastResolvedRollIdRef = NULL
    /\ forceLevelUpTrigger = 0
    /\ apiKeyAvailable = key
    /\ streams = {}
    /\ regenTimers = {}
    /\ rollerRequest = None
    /\ rollerResults = None
    /\ levelUpModal = None
    /\ faults = exceptions
    /\ startup = app
    /\ nextId = 1
    /\ levelUps = 0
    /\ resolvedIds = {}
    /\ lastOp = Op("init")

Init == \E level \in InitialLevels, key \in BOOLEAN : Opened(level, key, 0, None)

\* ------------------------------------------------------------------------
\* LevelUpModal, rendered by ChatInterface while isLevelUpModalOpen.  Its state
\* is followed where levelUpModal is Some(m); the field requests counts the
\* calls of generateLevelUpAbilityChoices that have not settled yet.
\* ------------------------------------------------------------------------
\* The useState initial values of a modal that is not mounted.
LevelUpModalUnmounted ==
    [selectedStat |-> None, selectedAbility |-> None, generatedAbilities |-> None,
     isLoadingAbilities |-> FALSE, aiError |-> FALSE, requests |-> 0]

\* useEffect on [isOpen, character, apiKeyAvailable], run for an open modal.
LevelUpModalEffect(m) ==
    [selectedStat |-> None, selectedAbility |-> None,
     generatedAbilities |-> IF apiKeyAvailable THEN None ELSE Some(<<>>),
     isLoadingAbilities |-> apiKeyAvailable, aiError |-> FALSE,
     requests |-> m.requests + (IF apiKeyAvailable THEN 1 ELSE 0)]

\* ChatInterface renders: the modal is mounted with isLevelUpModalOpen, and
\* every render hands it a new character object (getCurrentCharacterState()),
\* so that the effect above runs again.
LevelUpModalRendered ==
    levelUpModal' =
        IF levelUpModal = None THEN None
        ELSE IF ~isLevelUpModalOpen' THEN Some(LevelUpModalUnmounted)
        ELSE Some(LevelUpModalEffect(IF isLevelUpModalOpen THEN levelUpModal[1]
                                     ELSE LevelUpModalUnmounted))

\* useEffect on [selectedStat, selectedAbility, generatedAbilities, isLoadingAbilities]
canConfirm(m) ==
    /\ m.selectedStat # None
    /\ ~m.isLoadingAbilities
    /\ \/ m.generatedAbilities = None
       \/ m.generatedAbilities[1] = <<>>
       \/ m.selectedAbility # None

\* What generateLevelUpAbilityChoices settles with: a rejection (None) or a list.
AbilityOutcomes == {None, Some(<<>>), Some(<<"ability">>)}

\* A call of generateLevelUpAbilityChoices settles: then / catch / finally.
AbilityChoicesSettled ==
    /\ levelUpModal # None
    /\ isLevelUpModalOpen
    /\ levelUpModal[1].requests > 0
    /\ \E abilities \in AbilityOutcomes :
          LET offered == abilities # None /\ Len(abilities[1]) > 0
          IN levelUpModal' =
                 Some([levelUpModal[1] EXCEPT
                          !.generatedAbilities = IF offered THEN abilities ELSE Some(<<>>),
                          !.aiError = IF offered THEN @ ELSE TRUE,
                          !.isLoadingAbilities = FALSE,
                          !.requests = @ - 1])
    /\ lastOp' = Op("abilitiesSettled")
    /\ UNCHANGED <<chatHistory, isAiTyping, chatSession, error, charVars, diceVars,
                   isLevelUpModalOpen, lastResolvedRollIdRef, forceLevelUpTrigger, appVars, faults,
                   resolvedIds, streams, regenTimers, nextId, levelUps>>

\* A click on a stat button (handleStatSelection) or on one of the offered
\* abilities (handleAbilitySelection), which are shown once loading is over.
LevelUpModalSelect ==
    /\ levelUpModal # None
    /\ isLevelUpModalOpen
    /\ \E m \in {levelUpModal[1]} :
          \/ \E statName \in ChoosableStats :
                levelUpModal' = Some([m EXCEPT !.selectedStat = Some(statName)])
          \/ /\ apiKeyAvailable
             /\ ~m.isLoadingAbilities
             /\ m.generatedAbilities # None
             /\ \E i \in 1..Len(m.generatedAbilities[1]) :
                   levelUpModal' =
                       Some([m EXCEPT !.selectedAbility = Some(m.generatedAbilities[1][i])])
    /\ lastOp' = Op("select")
    /\ UNCHANGED <<chatHistory, isAiTyping, chatSession, error, charVars, diceVars,
                   isLevelUpModalOpen, lastResolvedRollIdRef, forceLevelUpTrigger, appVars, faults,
                   resolvedIds, streams, regenTimers, nextId, levelUps>>

\* ------------------------------------------------------------------------
\* Session start-up (useEffect on chatSession / apiKeyAvailable)
\* ------------------------------------------------------------------------
NonSystem(history) == SelectSeq(history, LAMBDA m : m.sender # "system")

\* startChatSession / getAi().chats.create: the session replays the
\* non-system turns it is given, the user's as "user", the others as "model".
CreateSession(history) ==
    Some([history |-> [i \in 1..Len(NonSystem(history)) |->
                          [role |-> IF NonSystem(history)[i].sender = "user" THEN "user" ELSE "model",
                           text |-> NonSystem(history)[i].text]]])

\* The effect still has work to do; React runs pending effects before it
\* handles the next event.
EffectPending ==
    \/ chatSession = None /\ apiKeyAvailable
    \/ ~apiKeyAvailable /\ error = NULL

EffectInitSession ==
    /\ chatSession = None
    /\ apiKeyAvailable
    /\ WithinBudget
    /\ \/ /\ chatSession' = CreateSession(chatHistory)
          /\ IF Len(NonSystem(chatHistory)) = 0
             THEN /\ isAiTyping' = TRUE
                  /\ error' = NULL
                  /\ chatHistory' = Append(chatHistory, Placeholder(nextId))
                  /\ streams' = streams \cup {NewStream(nextId, TRUE, 0, FALSE,
                                                        INITIAL_SCENE_PROMPT, "initial")}
                  /\ nextId' = nextId + 1
             ELSE UNCHANGED <<isAiTyping, error, chatHistory, streams, nextId>>
          /\ lastOp' = [Op("initSession") EXCEPT !.prompt = INITIAL_SCENE_PROMPT,
                                                 !.accepted = TRUE]
          /\ UNCHANGED faults
       \* startChatSession throws: the catch block
       \/ /\ faults > 0
          /\ faults' = faults - 1
          /\ error' = "initError"
          /\ chatHistory' = Append(chatHistory, SystemMsg("note:initError"))
          /\ isAiTyping' = FALSE
          /\ lastOp' = [Op("initSession") EXCEPT !.note = "note:initError"]
          /\ UNCHANGED <<chatSession, streams, nextId>>
    /\ UNCHANGED <<charVars, diceVars, isLevelUpModalOpen, lastResolvedRollIdRef,
                   forceLevelUpTrigger, appVars, resolvedIds, regenTimers, levelUps>>
    /\ LevelUpModalRendered

EffectNoApiKey ==
    /\ ~apiKeyAvailable
    /\ error = NULL
    /\ error' = "noKey"
    /\ chatHistory' = Append(chatHistory, SystemMsg("note:noKey"))
    /\ lastOp' = Op("noApiKey")
    /\ UNCHANGED <<isAiTyping, chatSession, charVars, diceVars, isLevelUpModalOpen,
                   lastResolvedRollIdRef, forceLevelUpTrigger, appVars, faults, resolvedIds, streams,
                   regenTimers, nextId, levelUps>>
    /\ LevelUpModalRendered

\* ------------------------------------------------------------------------
\* handleSendMessage
\* ------------------------------------------------------------------------
\* Variant: the disabled attribute without the level-up modal.
InputDisabledIgnoringLevelUp ==
    \/ isAiTyping
    \/ ~apiKeyAvailable
    \/ isDiceInterfaceActive
    \/ AnyRegenerating

\* The disabled attribute of the text input and of the send button.
InputDisabled ==
    \/ isAiTyping
    \/ ~apiKeyAvailable
    \/ isDiceInterfaceActive
    \/ AnyRegenerating
    \/ isLevelUpModalOpen

\* The early return of handleSendMessage (the input is non-empty here).
SendAborts ==
    \/ isAiTyping
    \/ chatSession = None
    \/ isDiceInterfaceActive

\* The body of handleSendMessage for a non-empty userInput.
SendBody(userMessageText) ==
    IF SendAborts
    THEN /\ lastOp' = Op("send")
         /\ UNCHANGED <<chatHistory, isAiTyping, chatSession, error, charVars, diceVars,
                        isLevelUpModalOpen, lastResolvedRollIdRef, forceLevelUpTrigger,
                        appVars, faults, levelUpModal, resolvedIds, streams, regenTimers, nextId, levelUps>>
    ELSE /\ lastResolvedRollIdRef' = NULL
         /\ chatHistory' = chatHistory \o <<Msg(NoId, "user", userMessageText, FALSE),
                                            Placeholder(nextId)>>
         /\ isAiTyping' = TRUE
         /\ error' = NULL
         /\ streams' = streams \cup {NewStream(nextId, TRUE, 0, FALSE, userMessageText, "send")}
         /\ nextId' = nextId + 1
         /\ lastOp' = [Op("send") EXCEPT !.accepted = TRUE, !.id = nextId,
                                         !.prompt = userMessageText]
         /\ UNCHANGED <<chatSession, charVars, diceVars, isLevelUpModalOpen,
                        forceLevelUpTrigger, appVars, faults, resolvedIds, regenTimers, levelUps>>
         /\ LevelUpModalRendered

\* The player submits through the input or the send button.
handleSendMessage ==
    \E userMessageText \in UserInputs :
        /\ ~EffectPending
        /\ ~InputDisabled
        /\ WithinBudget
        /\ SendBody(userMessageText)

\* ------------------------------------------------------------------------
\* handleStreamAndProcessInternal: one chunk of the for-await loop
\* ------------------------------------------------------------------------
\* Variant: the loop body reconciles the text accumulated so far.
ChunkFrameReconciling(acc) ==
    LET r == _updateStateAndParseCommands(cleanPotentialUndefined(acc), currentHp, currentMaxHp,
                 currentPlayerStatuses, focusTargetInfo, currentInventory, currentXP)
    IN /\ currentXP' = r.newCurrentXP
       /\ UNCHANGED <<isAiTyping, chatSession, error, focusTargetInfo, currentPlayerStatuses,
                      currentHp, currentMaxHp, currentStats, currentSkills, currentLevel,
                      currentXpToNextLevel, currentInventory, diceVars, isLevelUpModalOpen,
                      lastResolvedRollIdRef, forceLevelUpTrigger, appVars, faults, resolvedIds,
                      regenTimers, nextId, levelUps>>
       /\ LevelUpModalRendered

\* What the body of the for-await loop leaves alone: it calls setChatHistory only.
ChunkFrame(acc) ==
    /\ UNCHANGED <<isAiTyping, chatSession, error, charVars, diceVars, isLevelUpModalOpen,
                   lastResolvedRollIdRef, forceLevelUpTrigger, appVars, faults, resolvedIds,
                   regenTimers, nextId, levelUps>>
    /\ LevelUpModalRendered

\* The loop body for the stream s once the accumulated text is acc.
ChunkBody(s, acc) ==
    LET displayableText == _getDisplayableTextFromPartialAiResponse(cleanPotentialUndefined(acc))
    IN /\ streams' = (streams \ {s}) \cup {[s EXCEPT !.completeAiResponseText = acc]}
       /\ chatHistory' =
             [i \in 1..Len(chatHistory) |->
                 IF chatHistory[i].id = s.aiMessageId
                 THEN [chatHistory[i] EXCEPT
                          !.text = IF displayableText = <<>> THEN <<"...">>
                                   ELSE displayableText,
                          !.isRegenerating = TRUE]
                 ELSE chatHistory[i]]
       /\ lastOp' = [Op("chunk") EXCEPT !.id = s.aiMessageId]
       /\ ChunkFrame(acc)

StreamChunk ==
    \E s \in streams, resp \in Responses :
        /\ Len(s.completeAiResponseText) < Len(resp)
        /\ IsPrefix(s.completeAiResponseText, resp)
        /\ ChunkBody(s, Append(s.completeAiResponseText, resp[Len(s.completeAiResponseText) + 1]))

\* handleStreamAndProcessInternal: the stream promise rejects or the iteration
\* throws; the catch and finally blocks.
StreamThrows ==
    /\ faults > 0
    /\ \E s \in streams :
          /\ streams' = streams \ {s}
          /\ chatHistory' =
                [i \in 1..Len(chatHistory) |->
                    IF chatHistory[i].id = s.aiMessageId
                    THEN [chatHistory[i] EXCEPT !.text = <<"note:streamError">>,
                                                !.sender = "system",
                                                !.isRegenerating = FALSE]
                    ELSE chatHistory[i]]
          /\ lastOp' = [Op("streamError") EXCEPT !.id = s.aiMessageId, !.stream = Some(s)]
    /\ faults' = faults - 1
    /\ error' = "streamError"
    /\ isAiTyping' = FALSE
    /\ UNCHANGED <<chatSession, charVars, diceVars, isLevelUpModalOpen, lastResolvedRollIdRef,
                   forceLevelUpTrigger, appVars, resolvedIds, regenTimers, nextId, levelUps>>
    /\ LevelUpModalRendered

\* ------------------------------------------------------------------------
\* handleStreamAndProcessInternal: the stream has ended
\* ------------------------------------------------------------------------
SeqIf(cond, x) == IF cond THEN <<x>> ELSE <<>>

\* The inventory the snapshot holds once _updateStateAndParseCommands has
\* returned.  The copies the extractor works on share their entries with the
\* snapshot: the consume block subtracts in place, so a partial consume
\* shows in the snapshot too, unless the award block of the same answer put a
\* fresh object in the place of the entry it stacked on.
snapshotInventoryAfterCall(snapshotInventory, r) ==
    LET Named == [i \in 1..Len(snapshotInventory) |->
                      snapshotInventory[i].name = r.itemConsumed[1].name]
        originalIdx == IF r.itemConsumed = None THEN 0 ELSE FindIndex(Named)
        Stacked == [i \in 1..Len(snapshotInventory) |->
                       /\ snapshotInventory[i].name = r.itemAward[1].name
                       /\ snapshotInventory[i].type = r.itemAward[1].type]
        replaced == /\ r.itemAward # None
                    /\ r.itemAward[1].type \in stackableTypes
                    /\ FindIndex(Stacked) = originalIdx
    IN  IF /\ originalIdx # 0
           /\ ~replaced
           /\ snapshotInventory[originalIdx].quantity > r.itemConsumed[1].quantity
        THEN [snapshotInventory EXCEPT ![originalIdx].quantity = @ - r.itemConsumed[1].quantity]
        ELSE snapshotInventory

\* systemMessagesToAdd
SystemMessagesToAdd(s, r) ==
    LET snapshotInventory == snapshotInventoryAfterCall(s.cl.inventory, r)
        Named == [i \in 1..Len(snapshotInventory) |->
                      snapshotInventory[i].name = r.itemConsumed[1].name]
        originalIdx == IF r.itemConsumed = None THEN 0 ELSE FindIndex(Named)
        originalQuantity == snapshotInventory[originalIdx].quantity
        finalXPForLevelCheck == r.newCurrentXP
        shouldTriggerLevelUpModal ==
            \/ r.levelUpInitiateReason # None
            \/ finalXPForLevelCheck >= s.cl.xpToNextLevel /\ s.cl.level < MAX_LEVEL
    IN SeqIf(r.xpAward # None, SystemMsg("note:xp"))
       \o SeqIf(r.itemAward # None, SystemMsg("note:item"))
       \o SeqIf(originalIdx # 0 /\ originalQuantity >= r.itemConsumed[1].quantity,
                SystemMsg("note:used"))
       \o SeqIf(r.levelUpInitiateReason # None, SystemMsg("note:levelUpInitiate"))
       \o SeqIf(shouldTriggerLevelUpModal /\ ~(s.cl.level < MAX_LEVEL)
                    /\ r.levelUpInitiateReason # None,
                SystemMsg("note:maxLevel"))

OpensLevelUpModal(s, r) ==
    /\ \/ r.levelUpInitiateReason # None
       \/ r.newCurrentXP >= s.cl.xpToNextLevel /\ s.cl.level < MAX_LEVEL
    /\ s.cl.level < MAX_LEVEL

\* Variant: the branch is taken whether or not the answer holds a request.
ActivatesDiceRollWithoutRequest(r, lastResolved) ==
    \/ r.newDiceRollRequest = None
    \/ r.newDiceRollRequest[1].id # lastResolved

\* Variant: the branch without the comparison to the resolved id.
ActivatesDiceRollUnchecked(r, lastResolved) ==
    r.newDiceRollRequest # None

\* The dice-roll branch: TRUE when the new request is activated.
ActivatesDiceRoll(r, lastResolved) ==
    /\ r.newDiceRollRequest # None
    /\ r.newDiceRollRequest[1].id # lastResolved

conditionsForAutosave(s) ==
    /\ apiKeyAvailable
    /\ (~s.cl.isDiceInterfaceActive \/ s.isPostDiceRollResponse)
    /\ ~s.cl.isLevelUpModalOpen

\* Variant: the retry ceiling compared with <= instead of <.
SchedulesAutoRegenOffByOne(s, reason) ==
    /\ reason \in TruncatingReasons
    /\ s.isAutoRegen
    /\ s.retryCountIfAuto <= MAX_AUTO_REGEN_RETRIES

SchedulesAutoRegen(s, reason) ==
    /\ reason \in TruncatingReasons
    /\ s.isAutoRegen
    /\ s.retryCountIfAuto < MAX_AUTO_REGEN_RETRIES

GivesUpAutoRegen(s, reason) ==
    /\ reason \in TruncatingReasons
    /\ s.isAutoRegen
    /\ s.retryCountIfAuto >= MAX_AUTO_REGEN_RETRIES

\* Variant: the finished turn stays marked as streaming.
finalizedMessageStillStreaming(msg, finalTextForDisplay) ==
    [msg EXCEPT !.text = finalTextForDisplay]

\* The entry the history update puts in the place of the turn the stream wrote.
finalizedMessage(msg, finalTextForDisplay) ==
    [msg EXCEPT !.text = finalTextForDisplay, !.isRegenerating = FALSE]

StreamComplete ==
    \E s \in streams, currentFinishReason \in FinishReasons :
      \E r \in {_updateStateAndParseCommands(
                    cleanPotentialUndefined(s.completeAiResponseText), s.cl.hp, s.cl.maxHp,
                    s.cl.statuses, s.cl.focus, s.cl.inventory, s.cl.xp)} :
        LET finalized ==
                [i \in 1..Len(chatHistory) |->
                    IF chatHistory[i].id = s.aiMessageId
                    THEN finalizedMessage(chatHistory[i], r.cleanedText)
                    ELSE chatHistory[i]]
            updatedHistory == finalized \o SystemMessagesToAdd(s, r)
            activates == ActivatesDiceRoll(r, lastResolvedRollIdRef)
            regenNote == IF SchedulesAutoRegen(s, currentFinishReason) THEN "note:retry"
                         ELSE IF GivesUpAutoRegen(s, currentFinishReason) THEN "note:retryFail"
                         ELSE ""
        IN /\ currentHp' = r.newHp
           /\ currentMaxHp' = r.newMaxHp
           /\ currentPlayerStatuses' = r.newStatuses
           /\ focusTargetInfo' = r.newFocusTargetInfo
           /\ currentInventory' = r.newInventory
           /\ currentXP' = r.newCurrentXP
           /\ isLevelUpModalOpen' = (isLevelUpModalOpen \/ OpensLevelUpModal(s, r))
           /\ chatSession' = CreateSession(updatedHistory)
           /\ IF activates
              THEN /\ activeDiceRollRequest' = r.newDiceRollRequest
                   /\ isDiceInterfaceActive' = TRUE
                   /\ lastResolvedRollIdRef' = NULL
                   /\ IF isDiceInterfaceActive /\ activeDiceRollRequest # None
                      THEN UNCHANGED <<rollerRequest, rollerResults>>
                      ELSE /\ rollerRequest' = r.newDiceRollRequest
                           /\ rollerResults' = IF rollerResults = None THEN None
                                                ELSE Some(<<>>)
              ELSE UNCHANGED <<activeDiceRollRequest, isDiceInterfaceActive,
                               lastResolvedRollIdRef, rollerRequest, rollerResults>>
           /\ chatHistory' = updatedHistory \o SeqIf(regenNote # "", SystemMsg(regenNote))
           /\ regenTimers' =
                 IF SchedulesAutoRegen(s, currentFinishReason)
                 THEN regenTimers \cup {[id |-> s.aiMessageId, retry |-> s.retryCountIfAuto + 1,
                                         prompt |-> s.prompt]}
                 ELSE regenTimers
           /\ isAiTyping' = FALSE
           /\ streams' = streams \ {s}
           /\ lastOp' = [Op("complete") EXCEPT !.id = s.aiMessageId,
                                               !.saved = conditionsForAutosave(s),
                                               !.note = regenNote,
                                               !.prompt = s.prompt,
                                               !.stream = Some(s),
                                               !.truncated =
                                                   currentFinishReason \in TruncatingReasons,
                                               !.requested =
                                                   IF r.newDiceRollRequest = None THEN NULL
                                                   ELSE r.newDiceRollRequest[1].id,
                                               !.opened = OpensLevelUpModal(s, r),
                                               !.result = Some(r),
                                               !.accepted = activates]
           /\ UNCHANGED <<error, currentStats, currentSkills, currentLevel, currentXpToNextLevel,
                          forceLevelUpTrigger, appVars, faults, resolvedIds, nextId, levelUps>>
           /\ LevelUpModalRendered

\* ------------------------------------------------------------------------
\* handleDiceRollComplete (called by the mounted DiceRoller)
\* ------------------------------------------------------------------------
\* Math.floor(x / 2).  Variant: the division rounds toward zero.
Floor2TowardZero(x) == IF x >= 0 THEN x \div 2 ELSE -((-x) \div 2)

Floor2(x) == IF x >= 0 THEN x \div 2 ELSE -((1 - x) \div 2)

\* Variant: an ability without a score counts as 0.
performRollWithoutDefault(request, characterStats, random) ==
    [i \in 1..Len(request.statsToRoll) |->
        LET statName == request.statsToRoll[i]
            statValue == IF statName \in DOMAIN characterStats THEN characterStats[statName]
                         ELSE 0
            modifier == Floor2(statValue - 10)
            diceValue == 1 + random[i]
        IN [statName |-> statName, diceValue |-> diceValue, modifier |-> modifier,
            totalValue |-> diceValue + modifier]]

\* DiceRoller.performRoll: rollResults; random[i] is Math.floor(Math.random() * 20).
performRoll(request, characterStats, random) ==
    [i \in 1..Len(request.statsToRoll) |->
        LET statName == request.statsToRoll[i]
            statValue == IF statName \in DOMAIN characterStats THEN characterStats[statName]
                         ELSE BASE_STAT_VALUE
            modifier == Floor2(statValue - 10)
            diceValue == 1 + random[i]
        IN [statName |-> statName, diceValue |-> diceValue, modifier |-> modifier,
            totalValue |-> diceValue + modifier]]

\* The effect of the mounted DiceRoller rolls once; the results are shown when
\* the animation ends.
DiceRollerRoll ==
    /\ rollerResults # None
    /\ isDiceInterfaceActive
    /\ activeDiceRollRequest # None
    /\ rollerResults[1] = <<>>
    /\ \E random \in [1..Len(rollerRequest[1].statsToRoll) -> 0..19] :
          rollerResults' = Some(performRoll(rollerRequest[1], currentStats, random))
    /\ lastOp' = Op("roll")
    /\ UNCHANGED <<chatHistory, isAiTyping, chatSession, error, charVars, activeDiceRollRequest,
                   isDiceInterfaceActive, rollerRequest, isLevelUpModalOpen,
                   lastResolvedRollIdRef, forceLevelUpTrigger, appVars, faults, levelUpModal,
                   resolvedIds, streams, regenTimers, nextId, levelUps>>

RollMessageForAI(rollId) == <<"ROLL_RESULT", rollId>>

handleDiceRollComplete ==
    /\ isDiceInterfaceActive
    /\ activeDiceRollRequest # None
    /\ WithinBudget
    \* the timer that calls onRollComplete is set once the roll is shown
    /\ rollerResults # None => rollerResults[1] # <<>>
    /\ LET report == [rollId |-> rollerRequest[1].id,
                      rollDescription |-> rollerRequest[1].description,
                      results |-> IF rollerResults = None THEN <<>> ELSE rollerResults[1]]
           rollMessageForAI == RollMessageForAI(report.rollId)
       IN /\ isDiceInterfaceActive' = FALSE
          /\ activeDiceRollRequest' = None
          /\ rollerRequest' = None
          /\ rollerResults' = IF rollerResults = None THEN None ELSE Some(<<>>)
          /\ lastResolvedRollIdRef' = report.rollId
          /\ resolvedIds' = resolvedIds \cup {report.rollId}
          /\ IF chatSession = None
             THEN /\ chatHistory' = Append(chatHistory, SystemMsg("note:rolled"))
                  /\ error' = "noSession"
                  /\ lastOp' = [Op("diceComplete") EXCEPT !.note = report.rollId,
                                                          !.report = Some(report)]
                  /\ UNCHANGED <<isAiTyping, streams, nextId>>
             ELSE /\ chatHistory' = chatHistory \o <<SystemMsg("note:rolled"),
                                                     Placeholder(nextId)>>
                  /\ isAiTyping' = TRUE
                  /\ error' = NULL
                  /\ streams' = streams \cup {NewStream(nextId, TRUE, 0, TRUE, rollMessageForAI,
                                                        "dice")}
                  /\ nextId' = nextId + 1
                  /\ lastOp' = [Op("diceComplete") EXCEPT !.note = report.rollId, !.id = nextId,
                                                          !.accepted = TRUE,
                                                          !.report = Some(report),
                                                          !.prompt = rollMessageForAI]
    /\ UNCHANGED <<chatSession, charVars, isLevelUpModalOpen, forceLevelUpTrigger,
                   appVars, faults, regenTimers, levelUps>>
    /\ LevelUpModalRendered

\* ------------------------------------------------------------------------
\* handleRegenerateMessage
\* ------------------------------------------------------------------------
IndexOfId(history, id) ==
    IF \E i \in 1..Len(history) : history[i].id = id
    THEN CHOOSE i \in 1..Len(history) :
            history[i].id = id /\ \A j \in 1..(i - 1) : history[j].id # id
    ELSE 0

\* The index of the last player turn before position idx; 0 stands for -1.
userMessageIdxForPrompt(history, idx) ==
    IF \E i \in 1..(idx - 1) : history[i].sender = "user"
    THEN CHOOSE i \in 1..(idx - 1) :
            history[i].sender = "user" /\ \A j \in (i + 1)..(idx - 1) : history[j].sender # "user"
    ELSE 0

promptTextForRegen(history, idx) ==
    IF userMessageIdxForPrompt(history, idx) # 0
    THEN history[userMessageIdxForPrompt(history, idx)].text
    ELSE INITIAL_SCENE_PROMPT

\* Variant: every regeneration passed on as an automatic one.
RegenIsAutoFromZero(retryCount) == retryCount >= 0

\* isAutoRegen as handleRegenerateMessage passes it on.
RegenIsAuto(retryCount) == retryCount > 0

\* Variant: the slice keeps the turn that is regenerated.
historyThroughRegenTarget(prevChatHistory, aiMessageIndex) ==
    SubSeq(prevChatHistory, 1, aiMessageIndex)

\* prevChatHistory.slice(0, aiMessageIndex), with the index counted from 1.
historyUpToRegenTarget(prevChatHistory, aiMessageIndex) ==
    SubSeq(prevChatHistory, 1, aiMessageIndex - 1)

\* Variant: a regeneration withdraws the dice-roll request of the turn it
\* supersedes.
RegenFrameWithdrawingRoll ==
    /\ activeDiceRollRequest' = None
    /\ isDiceInterfaceActive' = FALSE
    /\ UNCHANGED <<chatSession, charVars, rollerRequest, rollerResults, isLevelUpModalOpen,
                   forceLevelUpTrigger, appVars, faults, resolvedIds, levelUps>>

\* What handleRegenerateMessage has no setter call for.
RegenFrame ==
    UNCHANGED <<chatSession, charVars, diceVars, isLevelUpModalOpen, forceLevelUpTrigger,
                appVars, faults, resolvedIds, levelUps>>

RegenBody(messageIdToRegenerate, retryCount, origin, replaces) ==
    LET aiMessageIndex == IndexOfId(chatHistory, messageIdToRegenerate)
    IN /\ error' = NULL
       /\ lastResolvedRollIdRef' = NULL
       /\ IF aiMessageIndex = 0
          THEN /\ isAiTyping' = FALSE
               /\ lastOp' = [Op(origin) EXCEPT !.id = messageIdToRegenerate]
               /\ UNCHANGED <<chatHistory, streams, nextId>>
          ELSE LET newAiMessageId == nextId
                   newRegeneratingMessage ==
                       [chatHistory[aiMessageIndex] EXCEPT !.id = newAiMessageId,
                                                           !.text = <<"...">>,
                                                           !.isRegenerating = TRUE]
                   prompt == promptTextForRegen(chatHistory, aiMessageIndex)
               IN /\ isAiTyping' = TRUE
                  /\ chatHistory' = Append(historyUpToRegenTarget(chatHistory, aiMessageIndex),
                                           newRegeneratingMessage)
                  /\ streams' = streams \cup
                        {NewStream(newAiMessageId, RegenIsAuto(retryCount), retryCount, FALSE,
                                   prompt, origin)}
                  /\ nextId' = nextId + 1
                  /\ lastOp' = [Op(origin) EXCEPT !.id = newAiMessageId, !.accepted = TRUE,
                                                  !.prompt = prompt, !.replaces = replaces]
       /\ RegenFrame
       /\ LevelUpModalRendered

\* The regenerate button of a model turn.
RegenerateButtonShown(msg) ==
    /\ msg.sender = "ai"
    /\ ~msg.isRegenerating
    /\ msg.text # <<"...">>
    /\ apiKeyAvailable

handleRegenerateMessage ==
    \E i \in 1..Len(chatHistory) :
        /\ RegenerateButtonShown(chatHistory[i])
        /\ WithinBudget
        /\ RegenBody(chatHistory[i].id, 0, "manualRegen", <<>>)
        /\ UNCHANGED regenTimers

\* setTimeout(() => handleRegenerateMessage(aiMessageId, retryCountIfAuto + 1), 500)
AutoRegenTimer ==
    \E t \in regenTimers :
        /\ WithinBudget
        /\ regenTimers' = regenTimers \ {t}
        /\ RegenBody(t.id, t.retry, "autoRegen", t.prompt)

\* ------------------------------------------------------------------------
\* Level-up workflow
\* ------------------------------------------------------------------------
\* useEffect on [forceLevelUpTrigger, addMessageToHistory, currentLevel]
ForceLevelUpEffect(trigger, level, history, modal) ==
    IF trigger > 0
    THEN IF level < MAX_LEVEL
         THEN [history |-> Append(history, SystemMsg("note:debugForce")), modal |-> TRUE]
         ELSE [history |-> Append(history, SystemMsg("note:debugMaxLevel")), modal |-> modal]
    ELSE [history |-> history, modal |-> modal]

\* The debug menu entry: App bumps forceLevelUpTrigger and the effect runs.
handleForceLevelUpFromMenu ==
    /\ ~EffectPending
    /\ forceLevelUpTrigger < MaxForce
    /\ WithinBudget
    /\ forceLevelUpTrigger' = forceLevelUpTrigger + 1
    /\ LET e == ForceLevelUpEffect(forceLevelUpTrigger + 1, currentLevel, chatHistory,
                                   isLevelUpModalOpen)
       IN /\ chatHistory' = e.history
          /\ isLevelUpModalOpen' = e.modal
    /\ lastOp' = Op("forceLevelUp")
    /\ UNCHANGED <<isAiTyping, chatSession, error, charVars, diceVars, lastResolvedRollIdRef,
                   appVars, faults, resolvedIds, streams, regenTimers, nextId, levelUps>>
    /\ LevelUpModalRendered

\* The close button of the level-up modal: onClose.
LevelUpModalClose ==
    /\ isLevelUpModalOpen
    /\ isLevelUpModalOpen' = FALSE
    /\ lastOp' = Op("modalClose")
    /\ UNCHANGED <<chatHistory, isAiTyping, chatSession, error, charVars, diceVars,
                   lastResolvedRollIdRef, forceLevelUpTrigger, appVars, faults, resolvedIds, streams,
                   regenTimers, nextId, levelUps>>
    /\ LevelUpModalRendered

handleLevelUpComplete ==
    \E chosenStatIncrease \in ChoosableStats, chosenAbility \in ChoosableAbilities :
        /\ isLevelUpModalOpen
        \* handleSubmitLevelUp, behind the confirm button of the modal
        /\ levelUpModal # None =>
              /\ canConfirm(levelUpModal[1]) /\ ~levelUpModal[1].isLoadingAbilities
              /\ levelUpModal[1].selectedStat = Some(chosenStatIncrease)
              /\ levelUpModal[1].selectedAbility = chosenAbility
        /\ currentLevel < MAX_LEVEL => levelUps < MaxLevelUps
        /\ IF currentLevel >= MAX_LEVEL
           THEN /\ chatHistory' = Append(chatHistory, SystemMsg("note:alreadyMaxLevel"))
                /\ isLevelUpModalOpen' = FALSE
                /\ lastOp' = Op("levelUpComplete")
                /\ UNCHANGED <<chatSession, error, charVars, lastResolvedRollIdRef, levelUps>>
           ELSE LET newLevel == currentLevel + 1
                    newStats == [currentStats EXCEPT ![chosenStatIncrease] = @ + 1]
                    newSkills == currentSkills \o chosenAbility
                    newCon == newStats["Constitution"]
                    newConModifier == Floor2(newCon - 10)
                    newMaxHpVal == currentMaxHp + BASE_HP_GAIN_PER_LEVEL + newConModifier
                    newCurrentXPVal == currentXP - currentXpToNextLevel
                    newXP == IF newCurrentXPVal < 0 THEN 0 ELSE newCurrentXPVal
                    newXpToNextLevelThreshold ==
                        IF newLevel < MAX_LEVEL THEN XP_THRESHOLDS[newLevel + 1] ELSE Infinity
                    chained == newXP >= newXpToNextLevelThreshold /\ newLevel < MAX_LEVEL
                    h1 == Append(chatHistory, SystemMsg("note:levelUp"))
                    h2 == h1 \o SeqIf(chained, SystemMsg("note:chainedLevelUp"))
                    e == ForceLevelUpEffect(forceLevelUpTrigger, newLevel, h2, chained)
                IN /\ lastResolvedRollIdRef' = NULL
                   /\ currentStats' = newStats
                   /\ currentSkills' = newSkills
                   /\ currentMaxHp' = newMaxHpVal
                   /\ currentHp' = newMaxHpVal
                   /\ currentXP' = newXP
                   /\ currentXpToNextLevel' = newXpToNextLevelThreshold
                   /\ currentLevel' = newLevel
                   /\ IF apiKeyAvailable
                      THEN chatSession' = CreateSession(chatHistory) /\ UNCHANGED error
                      ELSE error' = "sessionFailed" /\ UNCHANGED chatSession
                   /\ chatHistory' = e.history
                   /\ isLevelUpModalOpen' = e.modal
                   /\ levelUps' = levelUps + 1
                   /\ lastOp' = [Op("levelUpComplete") EXCEPT
                                    !.accepted = TRUE,
                                    \* updatedCharacterForAI
                                    !.character =
                                        Some([hp |-> newMaxHpVal, maxHp |-> newMaxHpVal,
                                              stats |-> newStats, level |-> newLevel,
                                              currentXP |-> newCurrentXPVal,
                                              xpToNextLevel |-> newXpToNextLevelThreshold]),
                                    !.saved = /\ apiKeyAvailable
                                              /\ ~isDiceInterfaceActive
                                              /\ ~isLevelUpModalOpen]
                   /\ UNCHANGED <<focusTargetInfo, currentPlayerStatuses, currentInventory>>
        /\ UNCHANGED <<isAiTyping, diceVars, forceLevelUpTrigger, appVars, faults, resolvedIds,
                       streams, regenTimers, nextId>>
        /\ LevelUpModalRendered

\* ------------------------------------------------------------------------
\* Specification
\* ------------------------------------------------------------------------
Next ==
    \/ EffectInitSession
    \/ EffectNoApiKey
    \/ handleSendMessage
    \/ StreamChunk
    \/ StreamComplete
    \/ handleDiceRollComplete
    \/ handleRegenerateMessage
    \/ AutoRegenTimer
    \/ handleForceLevelUpFromMenu
    \/ LevelUpModalClose
    \/ handleLevelUpComplete

Spec == Init /\ [][Next]_vars

\* handleSendMessage called while a stream is in flight or a dice roll is
\* pending, whatever the input renders: only the handler's own guard stands.
handleSendMessageDirect ==
    \E userMessageText \in UserInputs :
        /\ streams # {} \/ isDiceInterfaceActive
        /\ WithinBudget
        /\ SendBody(userMessageText)

NextDirect ==
    \/ Next
    \/ handleSendMessageDirect

SpecDirect == Init /\ [][NextDirect]_vars

\* ------------------------------------------------------------------------
\* The chat of a new character with a Gemini client that raises exceptions.
\* ------------------------------------------------------------------------
NextFaults ==
    \/ EffectInitSession
    \/ handleSendMessage
    \/ StreamChunk
    \/ StreamComplete
    \/ StreamThrows
    \/ handleDiceRollComplete
    \/ handleRegenerateMessage
    \/ AutoRegenTimer

SpecFaults == Opened(1, TRUE, MaxFaults, None) /\ [][NextFaults]_vars

\* ------------------------------------------------------------------------
\* One turn of the Game Master over a bounded set of answers: the answer
\* arrives in one chunk and is reconciled against the character the turn
\* started with.
\* ------------------------------------------------------------------------
\* The number of commands in an answer.
MaxCommands == 2

\* What can follow a sigil in an answer.
Payloads == ObjectPayloads \cup {"null"}

Commands == {<<sigil, payload>> : sigil \in Sigils, payload \in Payloads}

RECURSIVE CommandSeqs(_)
CommandSeqs(n) ==
    IF n = 0 THEN {<<>>}
    ELSE CommandSeqs(n - 1) \cup {t \o c : t \in CommandSeqs(n - 1), c \in Commands}

\* Narrative followed by commands.
ExtractTexts == {<<"n">> \o t : t \in CommandSeqs(MaxCommands)}

Item(name, type, quantity) == [name |-> name, type |-> type, quantity |-> quantity]

\* The inventories a turn can start with.
ExtractInventories ==
    { <<>>,
      <<Item("Potion", "potion", 3)>>,
      <<Item("Potion", "misc", 1), Item("Potion", "potion", 1)>>,
      <<Item("Sword", "weapon", 1)>>,
      <<Item("Sword", "weapon", 3)>> }

ExtractFoci ==
    {None, Some([EmptyObject EXCEPT !.name = Str("Orc"), !.hp = Num(9), !.maxHp = Num(9),
                                    !.description = Str("brute"), !.keys = 4])}

\* The player's turn has been sent and its answer is awaited.
\* followed: the inner state of the level-up modal and of the dice roller is
\* part of the state.
TurnInFlight(inventory, focus, stats, followed) ==
    /\ chatHistory = <<Msg(NoId, "user", <<"hello">>, FALSE), Placeholder(1)>>
    /\ isAiTyping = TRUE
    /\ chatSession = CreateSession(<<>>)
    /\ error = NULL
    /\ focusTargetInfo = focus
    /\ currentPlayerStatuses = <<>>
    /\ currentHp = 20
    /\ currentMaxHp = 20
    /\ currentStats = stats
    /\ currentSkills = <<>>
    /\ currentLevel = 1
    /\ currentXP = 0
    /\ currentXpToNextLevel = XP_THRESHOLDS[currentLevel + 1]
    /\ currentInventory = inventory
    /\ activeDiceRollRequest = None
    /\ isDiceInterfaceActive = FALSE
    /\ isLevelUpModalOpen = FALSE
    /\ lastResolvedRollIdRef = NULL
    /\ forceLevelUpTrigger = 0
    /\ apiKeyAvailable = TRUE
    /\ streams = {NewStream(1, TRUE, 0, FALSE, <<"hello">>, "send")}
    /\ regenTimers = {}
    /\ rollerRequest = None
    /\ rollerResults = IF followed THEN Some(<<>>) ELSE None
    /\ levelUpModal = IF followed THEN Some(LevelUpModalUnmounted) ELSE None
    /\ faults = 0
    /\ startup = None
    /\ nextId = 2
    /\ levelUps = 0
    /\ resolvedIds = {}
    /\ lastOp = [Op("send") EXCEPT !.accepted = TRUE, !.id = 1, !.prompt = <<"hello">>]

\* The whole answer arrives as the first chunk of the stream.
StreamChunkWhole(texts) ==
    \E s \in streams :
        /\ s.completeAiResponseText = <<>>
        /\ \E text \in texts : ChunkBody(s, text)

InitExtract == \E inventory \in ExtractInventories, focus \in ExtractFoci :
                   TurnInFlight(inventory, focus, InitialStats, FALSE)

NextExtract ==
    \/ StreamChunkWhole(ExtractTexts)
    \/ StreamComplete

SpecExtract == InitExtract /\ [][NextExtract]_vars

\* ------------------------------------------------------------------------
\* The level-up workflow over a bounded set of characters
\* ------------------------------------------------------------------------
LevelUpLevels == {1, 2, MAX_LEVEL - 1, MAX_LEVEL}

LevelUpXPs == {0, 50, 350, 1000}

LevelUpConstitutions == {9, 10, 14, 15}

\* A game in progress, idle, with the character drawn from the sets above;
\* the level-up modal may have been opened by the last reconciliation.
InitLevelUp ==
    /\ chatHistory = <<Msg(NoId, "user", <<"hello">>, FALSE), Msg(1, "ai", <<"n">>, FALSE)>>
    /\ isAiTyping = FALSE
    /\ chatSession = CreateSession(chatHistory)
    /\ error = NULL
    /\ focusTargetInfo = None
    /\ currentPlayerStatuses = <<>>
    /\ currentHp \in {5, 20}
    /\ currentMaxHp = 20
    /\ currentStats \in {[s \in StatName |-> IF s = "Constitution" THEN con ELSE BASE_STAT_VALUE] :
                            con \in LevelUpConstitutions}
    /\ currentSkills = <<>>
    /\ currentLevel \in LevelUpLevels
    /\ currentXP \in LevelUpXPs
    /\ currentXpToNextLevel = IF currentLevel < MAX_LEVEL THEN XP_THRESHOLDS[currentLevel + 1]
                               ELSE Infinity
    /\ currentInventory = <<>>
    /\ activeDiceRollRequest = None
    /\ isDiceInterfaceActive = FALSE
    /\ isLevelUpModalOpen \in {FALSE, currentLevel < MAX_LEVEL}
    /\ lastResolvedRollIdRef = NULL
    /\ forceLevelUpTrigger = 0
    /\ apiKeyAvailable = TRUE
    /\ streams = {}
    /\ regenTimers = {}
    /\ rollerRequest = None
    /\ rollerResults = None
    /\ levelUpModal = None
    /\ faults = 0
    /\ startup = None
    /\ nextId = 2
    /\ levelUps = 0
    /\ resolvedIds = {}
    /\ lastOp = Op("init")

NextLevelUp ==
    \/ handleForceLevelUpFromMenu
    \/ LevelUpModalClose
    \/ handleLevelUpComplete

SpecLevelUp == InitLevelUp /\ [][NextLevelUp]_vars

\* ------------------------------------------------------------------------
\* The level-up modal with its inner state, over a player turn in flight:
\* the debug menu opens the modal, the chunks of the turn render ChatInterface
\* while the modal is open.
\* ------------------------------------------------------------------------
NextModal ==
    \/ handleForceLevelUpFromMenu
    \/ StreamChunk
    \/ StreamComplete
    \/ AbilityChoicesSettled
    \/ LevelUpModalSelect
    \/ LevelUpModalClose
    \/ handleLevelUpComplete

SpecModal == TurnInFlight(<<>>, None, InitialStats, TRUE) /\ [][NextModal]_vars

\* ------------------------------------------------------------------------
\* Dice rolls: an answer asks for a roll, the roller rolls, the report is sent.
\* ------------------------------------------------------------------------
\* Ability-score maps: complete, with the scores 3, 8 and 16, and one that
\* holds a single score.
RollStats ==
    {InitialStats,
     [s \in StatName |-> CASE s = "Strength" -> 3 [] s = "Dexterity" -> 8
                            [] s = "Constitution" -> 16 [] OTHER -> BASE_STAT_VALUE],
     [s \in {"Dexterity"} |-> 16]}

NextRoll ==
    \/ StreamChunkWhole({<<"n", DICE_ROLL_REQUEST, payload>> : payload \in {"{A}", "{B}"}})
    \/ StreamComplete
    \/ DiceRollerRoll
    \/ handleDiceRollComplete

SpecRoll == (\E stats \in RollStats : TurnInFlight(<<>>, None, stats, TRUE)) /\ [][NextRoll]_vars

\* The eight command forms back to back, in every order, all with the same
\* well-formed payload.
SigilSeq == <<PLAYER_HP_UPDATE, PLAYER_STATUS_UPDATE, DICE_ROLL_REQUEST, FOCUS_PANEL_UPDATE,
              AWARD_XP, AWARD_ITEM, CONSUME_ITEM, LEVEL_UP_INITIATE>>

WellFormedPayloads == {"{A}", "{S}"}

RoundTripTexts ==
    { [k \in 1..(2 * Len(SigilSeq)) |->
          IF k % 2 = 1 THEN order[SigilSeq[(k + 1) \div 2]] ELSE payload] :
      order \in Permutations(Sigils), payload \in WellFormedPayloads }

NextRoundTrip ==
    \/ StreamChunkWhole(RoundTripTexts)
    \/ StreamComplete

SpecRoundTrip == TurnInFlight(<<>>, None, InitialStats, FALSE) /\ [][NextRoundTrip]_vars

\* ------------------------------------------------------------------------
\* Sequences of item commands: every answer holds at most one award and one
\* consume command, given here as JSON.parse returns them.  Quantities count
\* halves in these runs (2 is one item), so that the JSON numbers between the
\* integers are among them.
\* ------------------------------------------------------------------------
ItemCommandData ==
    {[EmptyObject EXCEPT !.name = Str(name), !.type = Str(type), !.description = Str("d"),
                         !.quantity = quantity] :
        name \in {"Potion", "Sword"}, type \in {"potion", "weapon", "gadget"},
        quantity \in {Num(n) : n \in -2..4} \cup {Str("2")}}

\* The award block and then the consume block of _updateStateAndParseCommands
\* on the current inventory, and setCurrentInventory with the outcome.
ItemCommandsReconciled ==
    \E award \in {None} \cup {Some(d) : d \in ItemCommandData},
       consume \in {None} \cup {Some(d) : d \in ItemCommandData} :
      \E awarded \in {IF award # None /\ ValidItemAward(award[1])
                       THEN AddItem(currentInventory, award[1].name.s, award[1].type.s,
                                    award[1].quantity.n)
                       ELSE currentInventory} :
        \E newInventory \in {IF consume # None /\ ValidItemConsume(consume[1])
                              THEN RemoveItem(awarded, consume[1].name.s, consume[1].quantity.n)
                              ELSE awarded} :
            /\ Len(newInventory) <= MaxItems
            /\ \A i \in 1..Len(newInventory) : newInventory[i].quantity <= MaxQuantity
            /\ currentInventory' = newInventory
            /\ lastOp' = Op("items")
            /\ UNCHANGED <<chatHistory, isAiTyping, chatSession, error, focusTargetInfo,
                           currentPlayerStatuses, currentHp, currentMaxHp, currentStats,
                           currentSkills, currentLevel, currentXP, currentXpToNextLevel,
                           diceVars, isLevelUpModalOpen, lastResolvedRollIdRef,
                           forceLevelUpTrigger, appVars, faults, levelUpModal, resolvedIds,
                           streams, regenTimers, nextId, levelUps>>

SpecItems == Opened(1, TRUE, 0, None) /\ [][ItemCommandsReconciled]_vars

\* ------------------------------------------------------------------------
\* App: the start-up load.  startup is Some of gamePhase, savedGameData and
\* the text found under SAVE_GAME_KEY in localStorage (None: no entry).  A
\* text is a sequence of tokens <<t, v>>: a brace, a comma, the literals null
\* and 5, or an object member with key t and a JSON value v.
\* ------------------------------------------------------------------------
SavedGameKeys == {"character", "chatHistory", "lastSaved"}

\* What localStorage may hold: nothing, every text of up to MaxStored tokens,
\* and the objects of two or three members (keys in any order, repeated or
\* missing, values that JavaScript takes as true or as false).
StoredValues ==
    LET Members == {<<"character", "{}">>, <<"character", "null">>,
                    <<"chatHistory", "[]">>, <<"chatHistory", "0">>,
                    <<"lastSaved", "\"t\"">>, <<"lastSaved", "\"\"">>}
        Tokens == Members \cup {<<c, "">> : c \in {"{", "}", ",", "null", "5"}}
        Object(ms) == [i \in 1..(2 * Len(ms) + 1) |->
                          IF i = 1 THEN <<"{", "">>
                          ELSE IF i = 2 * Len(ms) + 1 THEN <<"}", "">>
                          ELSE IF i % 2 = 0 THEN ms[i \div 2] ELSE <<",", "">>]
    IN  {None} \cup {Some(text) : text \in UNION {[1..n -> Tokens] : n \in 0..MaxStored}}
               \cup {Some(Object(ms)) : ms \in [1..2 -> Members] \cup [1..3 -> Members]}

\* JSON.parse: None for a SyntaxError, else the value with its properties
\* ("undefined" for a property the value does not have; of a repeated key
\* the last member counts).
JSONparse(text) ==
    LET inner == SubSeq(text, 2, Len(text) - 1)
        At(k) == {i \in 1..Len(inner) : inner[i][1] = k}
        Last(at) == CHOOSE i \in at : \A j \in at : j <= i
    IN  IF text = << <<"null", "">> >>
            THEN Some([kind |-> "null", fields |-> [k \in SavedGameKeys |-> "undefined"]])
        ELSE IF text = << <<"5", "">> >>
            THEN Some([kind |-> "number", fields |-> [k \in SavedGameKeys |-> "undefined"]])
        ELSE IF /\ Len(text) >= 2
                /\ text[1][1] = "{"
                /\ text[Len(text)][1] = "}"
                /\ inner = <<>> \/ Len(inner) % 2 = 1
                /\ \A i \in 1..Len(inner) :
                       IF i % 2 = 1 THEN inner[i][1] \in SavedGameKeys ELSE inner[i][1] = ","
            THEN Some([kind |-> "object",
                       fields |-> [k \in SavedGameKeys |->
                                      IF At(k) = {} THEN "undefined" ELSE inner[Last(At(k))][2]]])
        ELSE None

\* Variant: a property counts when the object has it, whatever its value.
Present(v) == v # "undefined"

\* The truth value JavaScript gives a JSON value in a condition.
Truthy(v) == v \notin {"undefined", "null", "false", "0", "\"\""}

\* A step of App: ChatInterface is not on screen and the key does not change.
AppStep(app, name) ==
    /\ startup' = Some(app)
    /\ lastOp' = Op(name)
    /\ UNCHANGED <<chatHistory, isAiTyping, chatSession, error, charVars, diceVars,
                   isLevelUpModalOpen, lastResolvedRollIdRef, forceLevelUpTrigger,
                   apiKeyAvailable, faults, levelUpModal, resolvedIds, streams, regenTimers,
                   nextId, levelUps>>

\* useEffect(() => performInitialSetup(), [performInitialSetup]) after the
\* first render.  Reading a property of null throws a TypeError, which ends in
\* the catch block like the SyntaxError of JSON.parse does.
performInitialSetup ==
    /\ startup # None
    /\ startup[1].gamePhase = "loading"
    /\ LET app == startup[1]
           savedGameJson == app.savedGameJson
       IN  IF savedGameJson # None /\ savedGameJson[1] # <<>>
               THEN \E game \in {JSONparse(savedGameJson[1])} :
                        IF /\ game # None
                           /\ game[1].kind # "null"
                           /\ Truthy(game[1].fields["character"])
                           /\ Truthy(game[1].fields["chatHistory"])
                           /\ Truthy(game[1].fields["lastSaved"])
                            THEN AppStep([app EXCEPT !.savedGameData = Some(game[1].fields),
                                                     !.gamePhase = "loadPrompt"], "setup")
                            ELSE AppStep([app EXCEPT !.savedGameJson = None,
                                                     !.gamePhase = "characterCreation"], "setup")
               ELSE AppStep([app EXCEPT !.gamePhase = "characterCreation"], "setup")

\* The "continue" button of the load prompt.  The character and the history
\* it hands to ChatInterface are not followed.
handleContinueSavedGame ==
    /\ startup # None
    /\ startup[1].gamePhase = "loadPrompt"
    /\ startup[1].savedGameData # None
    /\ AppStep([startup[1] EXCEPT !.gamePhase = "gameplay", !.savedGameData = None], "continue")

\* The "new game" button of the load prompt: resetToNewGame.
handleStartNewGameFromLoadPrompt ==
    /\ startup # None
    /\ startup[1].gamePhase = "loadPrompt"
    /\ startup[1].savedGameData # None
    /\ AppStep([startup[1] EXCEPT !.savedGameJson = None, !.gamePhase = "characterCreation",
                                  !.savedGameData = None], "newGame")

NextLoad ==
    \/ performInitialSetup
    \/ handleContinueSavedGame
    \/ handleStartNewGameFromLoadPrompt

SpecLoad ==
    /\ \E stored \in StoredValues, key \in BOOLEAN :
           Opened(1, key, 0, Some([gamePhase |-> "loading", savedGameData |-> None,
                                   savedGameJson |-> stored]))
    /\ [][NextLoad]_vars

\* ------------------------------------------------------------------------
\* Properties
\* ------------------------------------------------------------------------
\* The stream whose reconciliation was the last step.
Completed == lastOp.stream[1]

JustCompleted == lastOp.op = "complete"

\* C1: when the roll X has just been resolved and the answer to its report
\* requests a roll with the same id X, the request is not activated (no active
\* request, dice interface inactive); when the answer requests another id Y,
\* the request for Y becomes the active request.
DiceSuppression ==
    (JustCompleted /\ Completed.isPostDiceRollResponse /\ lastOp.requested # NULL) =>
        IF lastOp.requested = Completed.prompt[2]
        THEN activeDiceRollRequest = None /\ ~isDiceInterfaceActive
        ELSE /\ isDiceInterfaceActive
             /\ activeDiceRollRequest # None
             /\ activeDiceRollRequest[1].id = lastOp.requested

\* C3: an autosave at the end of a turn never happens while, after the turn's
\* reconciliation, a dice roll or a level-up choice is pending, those the turn
\* itself activated included; the one exception is a turn that answers a roll
\* just resolved and activates nothing new.
AutosaveNeverWhilePending ==
    (JustCompleted /\ lastOp.saved) =>
        \/ ~isDiceInterfaceActive /\ ~isLevelUpModalOpen
        \/ Completed.isPostDiceRollResponse /\ ~lastOp.accepted /\ ~lastOp.opened

\* C6: at most one run of handleStreamAndProcessInternal is in flight.
AtMostOneStream == Cardinality(streams) <= 1

\* C9: an automatic regeneration sends the model the same turn whose answer
\* was cut off, the roll report included.
AutoRegenResendsSameTurn ==
    (lastOp.op = "autoRegen" /\ lastOp.accepted) => lastOp.prompt = lastOp.replaces

\* C2 as stated: once a roll id has been resolved, no later reconciliation
\* activates a request with that id.
ResolvedIdNeverReactivated ==
    (JustCompleted /\ lastOp.accepted) => lastOp.requested \notin resolvedIds

\* C2: a reconciliation never activates a request whose id is the recorded
\* most recently resolved id, and that record is only replaced or cleared by
\* a player send, a regeneration, a level-up completion, another resolution
\* or the activation of a roll.
ResolvedIdNotReactivatedWhileRecorded ==
    [][ /\ (lastOp'.op = "complete" /\ lastOp'.accepted) =>
               lastOp'.requested # lastResolvedRollIdRef
        /\ (lastResolvedRollIdRef # NULL /\ lastResolvedRollIdRef' # lastResolvedRollIdRef) =>
               \/ lastOp'.op \in {"send", "manualRegen", "autoRegen", "levelUpComplete",
                                  "diceComplete"}
               \/ lastOp'.op = "complete" /\ lastOp'.accepted ]_vars

\* A reconciliation has just suppressed a request for the recorded resolved id.
ResolvedIdSuppressed ==
    /\ JustCompleted
    /\ lastOp.requested \in resolvedIds
    /\ lastOp.requested = lastResolvedRollIdRef
    /\ ~lastOp.accepted
    /\ ~isDiceInterfaceActive

\* C4: handleSendMessage invoked while a turn is streaming or a dice roll is
\* pending appends nothing to the history, starts no stream and leaves the
\* session and the character state unchanged.
SendRejectedWhileBusy ==
    [][ (lastOp'.op = "send" /\ (streams # {} \/ isDiceInterfaceActive)) =>
            /\ ~lastOp'.accepted
            /\ UNCHANGED <<chatHistory, streams, chatSession, charVars, diceVars, isAiTyping,
                           isLevelUpModalOpen, lastResolvedRollIdRef, regenTimers, nextId>> ]_vars

\* C5 as stated: while a level-up choice is pending no player turn is accepted,
\* and the pending state ends only by an applied handleLevelUpComplete.
LevelUpPendingEndsOnlyByCompletion ==
    [][ /\ isLevelUpModalOpen => ~(lastOp'.op = "send" /\ lastOp'.accepted)
        /\ (isLevelUpModalOpen /\ ~isLevelUpModalOpen') =>
               lastOp'.op = "levelUpComplete" /\ lastOp'.accepted ]_vars

\* C5: while the level-up modal is open no typed player turn is accepted, and
\* the modal closes only by handleLevelUpComplete or by its close button.
LevelUpGating ==
    [][ /\ isLevelUpModalOpen => ~(lastOp'.op = "send" /\ lastOp'.accepted)
        /\ (isLevelUpModalOpen /\ ~isLevelUpModalOpen') =>
               lastOp'.op \in {"levelUpComplete", "modalClose"} ]_vars

\* Only the pending level-up keeps the player from submitting a turn.
OnlyLevelUpBlocksInput ==
    /\ isLevelUpModalOpen
    /\ chatSession # None
    /\ apiKeyAvailable
    /\ ~isAiTyping
    /\ ~isDiceInterfaceActive
    /\ ~AnyRegenerating
    /\ WithinBudget

RetryNote == SystemMsg("note:retry")

RetryFailNote == SystemMsg("note:retryFail")

\* C7: a cut-off answer to an automatically-initiated send schedules exactly
\* one automatic regeneration, with the retry count raised by one and the retry
\* note, while the count is below MAX_AUTO_REGEN_RETRIES; at the ceiling it
\* appends exactly one give-up note and schedules nothing; no stream and no
\* timer ever carries a retry count above the ceiling.
BoundedAutoRegeneration ==
    [][ /\ \A s \in streams' : s.retryCountIfAuto <= MAX_AUTO_REGEN_RETRIES
        /\ \A t \in regenTimers' : t.retry \in 1..MAX_AUTO_REGEN_RETRIES
        /\ (lastOp'.op = "complete" /\ lastOp'.truncated /\ lastOp'.stream[1].isAutoRegen) =>
               LET s == lastOp'.stream[1]
                   appended == SubSeq(chatHistory', Len(chatHistory) + 1, Len(chatHistory'))
                   notes == SelectSeq(appended, LAMBDA m : m \in {RetryNote, RetryFailNote})
               IN IF s.retryCountIfAuto < MAX_AUTO_REGEN_RETRIES
                  THEN /\ notes = <<RetryNote>>
                       /\ regenTimers' = regenTimers \cup
                              {[id |-> s.aiMessageId, retry |-> s.retryCountIfAuto + 1,
                                prompt |-> s.prompt]}
                  ELSE /\ notes = <<RetryFailNote>>
                       /\ regenTimers' = regenTimers
        /\ (lastOp'.op = "autoRegen" /\ lastOp'.accepted) =>
               \E s \in streams' \ streams :
                   /\ s.isAutoRegen
                   /\ s.retryCountIfAuto \in 1..MAX_AUTO_REGEN_RETRIES
                   /\ \E t \in regenTimers \ regenTimers' : t.retry = s.retryCountIfAuto ]_vars

\* The second automatic regeneration was cut off too and the give-up note is
\* the last entry of the history.
AutoRegenGaveUp ==
    /\ JustCompleted
    /\ lastOp.truncated
    /\ Completed.retryCountIfAuto = MAX_AUTO_REGEN_RETRIES
    /\ chatHistory[Len(chatHistory)] = RetryFailNote
    /\ regenTimers = {}
    /\ streams = {}

\* C8: a cut-off stream started by a manual regenerate schedules no automatic
\* regeneration and appends neither the retry note nor the give-up note.
ManualRegenNeverRetries ==
    [][ (lastOp'.op = "complete" /\ lastOp'.truncated
            /\ lastOp'.stream[1].origin = "manualRegen") =>
            /\ regenTimers' = regenTimers
            /\ \A i \in (Len(chatHistory) + 1)..Len(chatHistory') :
                   chatHistory'[i] \notin {RetryNote, RetryFailNote} ]_vars

\* A manually regenerated answer has just been cut off.
ManualRegenCutOff ==
    /\ JustCompleted
    /\ lastOp.truncated
    /\ Completed.origin = "manualRegen"
    /\ ~Completed.isAutoRegen

\* C10: while chunks arrive, HP, max HP, statuses, focus target, inventory, XP,
\* the active dice request and the level-up flag do not change; the commands
\* are applied once, when the stream has ended, to the full accumulated text.
CommandsAppliedOnlyAtEnd ==
    [][ /\ lastOp'.op = "chunk" =>
               UNCHANGED <<currentHp, currentMaxHp, currentPlayerStatuses, focusTargetInfo,
                           currentInventory, currentXP, activeDiceRollRequest,
                           isDiceInterfaceActive, isLevelUpModalOpen>>
        /\ lastOp'.op = "complete" =>
               LET s == lastOp'.stream[1]
                   r == _updateStateAndParseCommands(
                            cleanPotentialUndefined(s.completeAiResponseText), s.cl.hp,
                            s.cl.maxHp, s.cl.statuses, s.cl.focus, s.cl.inventory, s.cl.xp)
               IN /\ currentHp' = r.newHp
                  /\ currentMaxHp' = r.newMaxHp
                  /\ currentPlayerStatuses' = r.newStatuses
                  /\ focusTargetInfo' = r.newFocusTargetInfo
                  /\ currentInventory' = r.newInventory
                  /\ currentXP' = r.newCurrentXP
                  /\ r.xpAward # None => currentXP' = s.cl.xp + r.xpAward[1].amount ]_vars

\* A chunk has completed an XP command in the accumulated text and the XP is
\* still what it was.
CompleteCommandNotYetApplied ==
    /\ lastOp.op = "chunk"
    /\ \E s \in streams :
           /\ s.aiMessageId = lastOp.id
           /\ RegexMatch(s.completeAiResponseText, AWARD_XP) # 0
           /\ currentXP = s.cl.xp
    /\ currentXP = 0
    /\ ~isLevelUpModalOpen

\* ------------------------------------------------------------------------
\* Properties of one reconciled answer
\* ------------------------------------------------------------------------
\* The extractor's result for the stream whose reconciliation was the last
\* step, and the answer that stream carried.
DoneResult == lastOp.result[1]

DoneText == Completed.completeAiResponseText

\* The payload that follows the first occurrence of the sigil in the text.
FirstPayload(text, sigil) ==
    LET at == {i \in 1..(Len(text) - 1) : text[i] = sigil}
    IN text[(CHOOSE i \in at : \A j \in at : i <= j) + 1]

Occurrences(text, sigil) == Cardinality({i \in 1..Len(text) : text[i] = sigil})

\* C11: an awarded item of a stackable category (potion, misc, food, key,
\* currency) adds its quantity to the existing entry with the same name and
\* the same category and leaves the number of entries unchanged; an award
\* with no such entry, or of any other category, appends a new entry.
InventoryMerge ==
    (/\ JustCompleted
     /\ Occurrences(DoneText, AWARD_ITEM) = 1
     /\ Occurrences(DoneText, CONSUME_ITEM) = 0
     /\ FirstPayload(DoneText, AWARD_ITEM) \in {"{A}", "{B}", "{L}"})
    => LET before == Completed.cl.inventory
           award == JSONParse(FirstPayload(DoneText, AWARD_ITEM))
           same == {i \in 1..Len(before) : /\ before[i].name = award.name.s
                                            /\ before[i].type = award.type.s}
       IN IF award.type.s \in {"potion", "misc", "food", "key", "currency"} /\ same # {}
          THEN /\ Len(currentInventory) = Len(before)
               /\ \E i \in same :
                      currentInventory = [before EXCEPT ![i].quantity = @ + award.quantity.n]
          ELSE currentInventory = Append(before, Item(award.name.s, award.type.s,
                                                      award.quantity.n))

\* A potion was awarded to a character holding a misc item and a potion of
\* that name: the potion entry grew.
AwardStackedOnSameCategory ==
    /\ JustCompleted
    /\ DoneText = <<"n", AWARD_ITEM, "{A}">>
    /\ Completed.cl.inventory = <<Item("Potion", "misc", 1), Item("Potion", "potion", 1)>>
    /\ currentInventory = <<Item("Potion", "misc", 1), Item("Potion", "potion", 2)>>

\* C12: a consumed item is looked up by name alone; asking for more than is
\* held leaves the inventory as it was, asking for exactly what is held
\* removes the entry, asking for less lowers the quantity by the amount.
ConsumeByNameOnly ==
    (/\ JustCompleted
     /\ Occurrences(DoneText, CONSUME_ITEM) = 1
     /\ Occurrences(DoneText, AWARD_ITEM) = 0
     /\ FirstPayload(DoneText, CONSUME_ITEM) \in {"{A}", "{B}", "{L}"})
    => LET before == Completed.cl.inventory
           used == JSONParse(FirstPayload(DoneText, CONSUME_ITEM))
           named == {i \in 1..Len(before) : before[i].name = used.name.s}
       IN IF named = {} THEN currentInventory = before
          ELSE LET i == CHOOSE k \in named : \A j \in named : k <= j
                   held == before[i].quantity
               IN IF used.quantity.n > held THEN currentInventory = before
                  ELSE IF used.quantity.n = held
                       THEN currentInventory = SubSeq(before, 1, i - 1)
                                               \o SubSeq(before, i + 1, Len(before))
                  ELSE currentInventory = [before EXCEPT ![i].quantity = held - used.quantity.n]

\* One Potion was consumed by a character whose first entry of that name is
\* a misc item held once: that entry is gone, the potion entry is untouched.
ConsumedWholeEntryByName ==
    /\ JustCompleted
    /\ DoneText = <<"n", CONSUME_ITEM, "{A}">>
    /\ Completed.cl.inventory = <<Item("Potion", "misc", 1), Item("Potion", "potion", 1)>>
    /\ currentInventory = <<Item("Potion", "potion", 1)>>

\* C13: a command whose payload is malformed or wrongly shaped has no effect,
\* its span is stripped all the same, and the rest of the answer is
\* reconciled exactly as it would be without that command.
MalformedIsolated ==
    JustCompleted =>
        \A i \in 1..(Len(DoneText) - 1) :
            (/\ DoneText[i] \in Sigils
             /\ DoneText[i + 1] \in {"{!}", "{W}", "{M}"}
             /\ \A j \in 1..Len(DoneText) : DoneText[j] \in {"{!}", "{W}", "{M}"} => j = i + 1)
            => DoneResult = _updateStateAndParseCommands(
                                RemoveAt(DoneText, i, 2), Completed.cl.hp, Completed.cl.maxHp,
                                Completed.cl.statuses, Completed.cl.focus,
                                Completed.cl.inventory, Completed.cl.xp)

\* C14: an answer made of the eight command forms back to back, each with a
\* well-formed payload, leaves an empty cleaned text and yields the effect of
\* each of the eight, whatever the order of the sigils.
ExtractorRoundTrip ==
    (JustCompleted /\ DoneText \in RoundTripTexts)
    => /\ DoneResult.cleanedText = <<>>
       /\ DoneResult.newHp = 5
       /\ DoneResult.newStatuses = <<"poisoned">>
       /\ DoneResult.newDiceRollRequest # None
       /\ DoneResult.newFocusTargetInfo # None
       /\ DoneResult.xpAward # None
       /\ DoneResult.itemAward # None
       /\ DoneResult.itemConsumed # None
       /\ DoneResult.levelUpInitiateReason # None
       /\ DoneResult = _updateStateAndParseCommands(
                           [k \in 1..Len(DoneText) |->
                               IF k % 2 = 1 THEN SigilSeq[(k + 1) \div 2] ELSE DoneText[k]],
                           Completed.cl.hp, Completed.cl.maxHp, Completed.cl.statuses,
                           Completed.cl.focus, Completed.cl.inventory, Completed.cl.xp)

\* Narrative followed by commands whose payloads are all well formed.
WellFormedAnswer(text) ==
    /\ Len(text) % 2 = 1
    /\ text[1] = "n"
    /\ \A k \in 2..Len(text) : IF k % 2 = 0 THEN text[k] \in Sigils
                                 ELSE text[k] \in {"{A}", "{B}"}

\* The text shown for the message has no sigil and no payload in it.
ShownClean(id) ==
    \A i \in 1..Len(chatHistory) :
        chatHistory[i].id = id =>
            \A k \in 1..Len(chatHistory[i].text) :
                chatHistory[i].text[k] \notin Sigils \cup Payloads

\* C15: for narrative followed by any sequence of well-formed commands,
\* several of them with the same sigil included, neither the text shown
\* while the answer streams nor the finalized text of the turn contains a
\* sigil or a payload.
NoCommandTextShown ==
    /\ lastOp.op = "chunk" =>
          \A s \in streams :
              (s.aiMessageId = lastOp.id /\ WellFormedAnswer(s.completeAiResponseText))
              => ShownClean(s.aiMessageId)
    /\ (JustCompleted /\ WellFormedAnswer(DoneText)) => ShownClean(lastOp.id)

\* C16: a dice-roll request is accepted only with a string id, a string
\* description and a statsToRoll list of one to three entries, all of them
\* among the six ability names; any other request is dropped whole and
\* activates nothing.
DiceRequestShape ==
    (JustCompleted /\ Occurrences(DoneText, DICE_ROLL_REQUEST) = 1)
    => LET payload == FirstPayload(DoneText, DICE_ROLL_REQUEST)
           obj == JSONParse(payload)
           wellShaped ==
               /\ payload \notin {"{!}", "{S}"}
               /\ obj.id.t = "string"
               /\ obj.description.t = "string"
               /\ obj.statsToRoll.t = "array"
               /\ Len(obj.statsToRoll.a) \in 1..3
               /\ \A k \in 1..Len(obj.statsToRoll.a) : obj.statsToRoll.a[k] \in StatName
       IN ~wellShaped => /\ DoneResult.newDiceRollRequest = None
                         /\ activeDiceRollRequest = None
                         /\ ~isDiceInterfaceActive

LevelUpOffer ==
    /\ [](JustCompleted =>
            (lastOp.opened <=> /\ currentLevel < MAX_LEVEL
                               /\ \/ currentXP >= currentXpToNextLevel
                                  \/ DoneResult.levelUpInitiateReason # None))
    /\ [][forceLevelUpTrigger' # forceLevelUpTrigger =>
              isLevelUpModalOpen' = (isLevelUpModalOpen \/ currentLevel < MAX_LEVEL)]_vars

XpNeverNegative ==
    (lastOp.op = "levelUpComplete" /\ lastOp.character # None)
    => /\ currentXP >= 0
       /\ lastOp.character[1].currentXP >= 0

\* C21: when the XP left after a level-up still reaches the new threshold and
\* the new level is below MAX_LEVEL, a further level-up is pending as soon
\* as the level-up is applied; otherwise none is pending after completion.
ChainedLevelUp ==
    (lastOp.op = "levelUpComplete" /\ lastOp.character # None)
    => (isLevelUpModalOpen <=> (currentXP >= currentXpToNextLevel /\ currentLevel < MAX_LEVEL))

\* C22: the level never exceeds MAX_LEVEL; at MAX_LEVEL no level-up workflow
\* is offered, and completing a level-up there changes no stat, HP, XP or
\* level.
LevelCapped ==
    /\ [](currentLevel <= MAX_LEVEL)
    /\ [][currentLevel = MAX_LEVEL =>
              /\ isLevelUpModalOpen' => isLevelUpModalOpen
              /\ lastOp'.op = "levelUpComplete" =>
                     UNCHANGED <<currentStats, currentHp, currentMaxHp, currentXP, currentLevel>>]_vars

\* C23: a level-up is confirmed only with a stat selected and the ability
\* candidates no longer loading, and with an ability selected exactly when
\* the candidate list is not empty.
ConfirmGated ==
    [][lastOp'.op = "levelUpComplete" =>
           \E m \in {levelUpModal[1]} :
               /\ m.selectedStat # None
               /\ ~m.isLoadingAbilities
               /\ m.selectedAbility # None
                      <=> (m.generatedAbilities # None /\ m.generatedAbilities[1] # <<>>)]_vars

\* C24: the report of a roll has one result per requested ability, in the
\* requested order, each with diceValue in 1..20, modifier
\* floor((score - 10) / 2) where an ability without a score counts as 10, and
\* totalValue = diceValue + modifier; it carries the id and the description
\* of the request.
RollReportShape ==
    (lastOp.op = "diceComplete")
    => \E report \in {lastOp.report[1]} :
         \E request \in {r \in {JSONParse("{A}"), JSONParse("{B}")} : r.id.s = report.rollId} :
           /\ report.rollDescription = request.description.s
           /\ Len(report.results) = Len(request.statsToRoll.a)
           /\ \A i \in 1..Len(report.results) :
                 \E res \in {report.results[i]} :
                   /\ res.statName = request.statsToRoll.a[i]
                   /\ res.diceValue \in 1..20
                   /\ res.modifier =
                         (CASE res.statName \notin DOMAIN currentStats -> 0
                            [] currentStats[res.statName] = 3 -> -4
                            [] currentStats[res.statName] = 8 -> -1
                            [] currentStats[res.statName] = 10 -> 0
                            [] currentStats[res.statName] = 14 -> 2
                            [] currentStats[res.statName] = 16 -> 3)
                   /\ res.totalValue = res.diceValue + res.modifier

\* C24 witness: a report for two abilities, one without a score and one with
\* the score 16, with the lowest and the highest throw.
RollReportExample ==
    /\ lastOp.op = "diceComplete"
    /\ lastOp.report[1].results =
           <<[statName |-> "Dexterity", diceValue |-> 20, modifier |-> 3, totalValue |-> 23],
             [statName |-> "Constitution", diceValue |-> 1, modifier |-> 0, totalValue |-> 1]>>

\* C25: an activated dice-roll request goes away only by being consumed: its
\* own report is produced, the active request is cleared, the dice interface
\* is inactive and the report is sent to the model as a new turn.
DiceRequestConsumedOnce ==
    [][(activeDiceRollRequest # None /\ activeDiceRollRequest' # activeDiceRollRequest)
          => /\ lastOp'.op = "diceComplete"
             /\ lastOp'.report[1].rollId = activeDiceRollRequest[1].id
             /\ activeDiceRollRequest' = None
             /\ ~isDiceInterfaceActive'
             /\ lastOp'.accepted
             /\ \E s \in streams' \ streams :
                   s.prompt = RollMessageForAI(activeDiceRollRequest[1].id)]_vars

\* C26: the opening turn is requested once, from the empty history and with
\* the opening-scene seed; when its stream has ended, the reconciliation and
\* the session rebuild run once for it, and an answer without commands leaves
\* HP, max HP, statuses, focus, inventory and XP as they are.
OpeningScene ==
    [][/\ lastOp'.op = "initSession" =>
              /\ chatHistory = <<>> /\ lastOp.op = "init"
              /\ \E s \in streams' \ streams : s.prompt = INITIAL_SCENE_PROMPT
       /\ (lastOp'.op = "complete" /\ lastOp'.stream[1].origin = "initial") =>
              /\ lastOp'.stream[1] \in streams \ streams'
              /\ chatSession' = CreateSession(chatHistory')
              /\ lastOp'.stream[1].completeAiResponseText = <<"n">> =>
                     UNCHANGED <<currentHp, currentMaxHp, currentPlayerStatuses,
                                 focusTargetInfo, currentInventory, currentXP>>]_vars

\* C27: when the creation of the session at start-up throws, the history
\* holds one narrator-system message about it, the error banner is set, and
\* the step that follows is not another attempt to create the session.
StartupFailureSurfacedOnce ==
    [][(lastOp.op = "initSession" /\ lastOp.note = "note:initError")
          => /\ error = "initError"
             /\ Len(SelectSeq(chatHistory, LAMBDA m : m.text = <<"note:initError">>)) = 1
             /\ lastOp'.op # "initSession"]_vars

\* C28: when a completion stream throws, the placeholder of its turn becomes
\* a narrator-system entry carrying the failure text and no longer marked as
\* streaming, the error banner is set, isAiTyping is cleared, no timer and no
\* stream is started, and HP, max HP, statuses, focus, inventory, XP, level
\* and the session handle keep their values.
StreamFailureSurfaced ==
    [][(lastOp'.op = "streamError") =>
           /\ \E i \in 1..Len(chatHistory') :
                  /\ chatHistory'[i].id = lastOp'.id
                  /\ chatHistory'[i].sender = "system"
                  /\ chatHistory'[i].text = <<"note:streamError">>
                  /\ ~chatHistory'[i].isRegenerating
           /\ error' = "streamError"
           /\ ~isAiTyping'
           /\ regenTimers' \subseteq regenTimers
           /\ streams' \subseteq streams
           /\ UNCHANGED <<currentHp, currentMaxHp, currentPlayerStatuses, focusTargetInfo,
                          currentInventory, currentXP, currentLevel, chatSession>>]_vars

\* ------------------------------------------------------------------------
\* Properties of the start-up load
\* ------------------------------------------------------------------------
\* C29: the start-up load goes from Loading to LoadPrompt exactly when the
\* stored text parses and has a character, a dialogue history and a save
\* timestamp; in every other case it goes to CharacterCreation and the entry
\* is gone from the storage.
StartupLoad ==
    [][(lastOp'.op = "setup") =>
           LET stored == startup[1].savedGameJson
               game == IF stored = None THEN None ELSE JSONparse(stored[1])
               complete == /\ game # None
                           /\ \A k \in SavedGameKeys :
                                  game[1].fields[k] \notin {"undefined", "null", "false", "0", "\"\""}
           IN  /\ startup[1].gamePhase = "loading"
               /\ (startup'[1].gamePhase = "loadPrompt") <=> complete
               /\ ~complete => /\ startup'[1].gamePhase = "characterCreation"
                               /\ startup'[1].savedGameJson = None]_vars

\* C29, as the code has it: the same, except that an entry holding the empty
\* text is taken for no entry and stays in the storage.
StartupLoadOfNonEmptyText ==
    [][(lastOp'.op = "setup") =>
           LET stored == startup[1].savedGameJson
               game == IF stored = None THEN None ELSE JSONparse(stored[1])
               complete == /\ game # None
                           /\ \A k \in SavedGameKeys :
                                  game[1].fields[k] \notin {"undefined", "null", "false", "0", "\"\""}
           IN  /\ startup[1].gamePhase = "loading"
               /\ (startup'[1].gamePhase = "loadPrompt") <=> complete
               /\ complete => startup'[1].savedGameJson = stored
               /\ ~complete =>
                      /\ startup'[1].gamePhase = "characterCreation"
                      /\ startup'[1].savedGameJson = IF stored = Some(<<>>) THEN stored ELSE None]_vars

\* The load prompt is up for a stored game.
StartupLoadPrompt ==
    /\ startup # None
    /\ lastOp.op = "setup"
    /\ startup[1].gamePhase = "loadPrompt"
    /\ startup[1].savedGameData # None
    /\ startup[1].savedGameJson # None

\* ------------------------------------------------------------------------
\* Properties of the replayed history
\* ------------------------------------------------------------------------
\* C30: when the answer to a typed turn or to a dice-roll report has been
\* reconciled, the history seeded into the rebuilt session holds that input
\* as a "user" turn right before the answer, and its turns alternate between
\* "user" and "model".
ReplayKeepsPlayerTurns ==
    [][(/\ lastOp'.op = "complete"
        /\ lastOp'.stream[1].origin \in {"send", "dice"}) =>
           LET replayed == chatSession'[1].history
           IN  /\ Len(replayed) >= 2
               /\ replayed[Len(replayed) - 1] =
                      [role |-> "user", text |-> lastOp'.stream[1].prompt]
               /\ replayed[Len(replayed)].role = "model"
               /\ \A i \in 1..(Len(replayed) - 1) : replayed[i].role # replayed[i + 1].role]_vars

\* ------------------------------------------------------------------------
\* Properties of the character state
\* ------------------------------------------------------------------------
\* C31: in every reachable state the current health is at most the maximum
\* health.
HpAtMostMaxHp == currentHp <= currentMaxHp

\* C32: the snapshot handed to the reconciliation of an answer, its inventory
\* with every entry and quantity, is the same after the call as before it.
SnapshotLeftAlone ==
    (lastOp.op = "complete") =>
        snapshotInventoryAfterCall(lastOp.stream[1].cl.inventory, lastOp.result[1])
            = lastOp.stream[1].cl.inventory

LevelUpPersisted ==
    (lastOp.op = "levelUpComplete" /\ lastOp.accepted /\ apiKeyAvailable) =>
        /\ chatSession # None
        /\ (~isDiceInterfaceActive /\ ~isLevelUpModalOpen) => lastOp.saved

\* ------------------------------------------------------------------------
\* Properties of overlapping updates
\* ------------------------------------------------------------------------
\* C35: the reconciliation of an answer keeps what was committed while its
\* stream was in flight: HP, max HP and XP keep the values they have at
\* stream completion unless a command of the answer sets them.
NoLostUpdate ==
    [][(lastOp'.op = "complete") =>
           LET s == lastOp'.stream[1]
               r == lastOp'.result[1]
           IN  /\ r.newHp = s.cl.hp => currentHp' = currentHp
               /\ r.newMaxHp = s.cl.maxHp => currentMaxHp' = currentMaxHp
               /\ r.xpAward = None => currentXP' = currentXP]_vars

\* C36: the "item used" note is added for a turn exactly when the consume
\* command of its answer reduced or removed an entry of the inventory.
UsedNoteIffConsumed ==
    (lastOp.op = "complete") =>
        LET s == lastOp.stream[1]
            r == lastOp.result[1]
            beforeConsume ==
                IF r.itemAward = None THEN s.cl.inventory
                ELSE AddItem(s.cl.inventory, r.itemAward[1].name, r.itemAward[1].type,
                             r.itemAward[1].quantity)
        IN  (\E i \in 1..Len(chatHistory) : chatHistory[i] = SystemMsg("note:used"))
                <=> (r.itemConsumed # None /\ r.newInventory # beforeConsume)

\* ------------------------------------------------------------------------
\* Properties of regeneration
\* ------------------------------------------------------------------------
\* C37: the start of a regeneration leaves HP, max HP, statuses, focus,
\* inventory, XP, level, the ability scores and skills, the active dice-roll
\* request with its interface, the level-up flag and the session as they were.
RegenerationStartFrame ==
    [][(lastOp'.op \in {"manualRegen", "autoRegen"}) =>
           UNCHANGED <<currentHp, currentMaxHp, currentPlayerStatuses, focusTargetInfo,
                       currentInventory, currentXP, currentXpToNextLevel, currentLevel,
                       currentStats, currentSkills, activeDiceRollRequest,
                       isDiceInterfaceActive, isLevelUpModalOpen, chatSession>>]_vars

\* A regeneration has started over a turn that asked for a roll: the request
\* is still active.
RegenerationKeptEffects ==
    /\ lastOp.op = "manualRegen"
    /\ lastOp.accepted
    /\ activeDiceRollRequest # None
    /\ isDiceInterfaceActive
    /\ chatHistory[Len(chatHistory)] = Msg(lastOp.id, "ai", <<"...">>, TRUE)

\* ------------------------------------------------------------------------
\* Properties of the inventory
\* ------------------------------------------------------------------------
\* C38: after any sequence of award and consume commands every entry of the
\* inventory holds at least one item (two halves).
QuantityAtLeastOne ==
    \A i \in 1..Len(currentInventory) : currentInventory[i].quantity >= 2

\* ------------------------------------------------------------------------
\* Properties of the dice interface
\* ------------------------------------------------------------------------
\* C39: the dice interface is active exactly when there is an active
\* dice-roll request, and the two change only in the reconciliation that
\* activates a request, which sets both, and in the completion of a roll,
\* which clears both.
DiceInterfaceIffRequest ==
    /\ isDiceInterfaceActive <=> activeDiceRollRequest # None
    /\ [][/\ isDiceInterfaceActive' <=> activeDiceRollRequest' # None
          /\ <<isDiceInterfaceActive, activeDiceRollRequest>>'
                # <<isDiceInterfaceActive, activeDiceRollRequest>> =>
                \/ /\ lastOp'.op = "complete"
                   /\ isDiceInterfaceActive'
                   /\ activeDiceRollRequest' = lastOp'.result[1].newDiceRollRequest
                \/ /\ lastOp'.op = "diceComplete"
                   /\ ~isDiceInterfaceActive']_vars

\* A roll has been completed: the request and the interface are both gone.
DiceInterfaceCleared ==
    /\ lastOp.op = "diceComplete"
    /\ resolvedIds # {}
    /\ ~isDiceInterfaceActive
    /\ activeDiceRollRequest = None

\* ------------------------------------------------------------------------
\* Streams whose transport terminates
\* ------------------------------------------------------------------------
\* The chat of SpecFaults where what the runtime schedules does happen: the
\* for-await loop of a stream ends or throws, the effect that opens the
\* session runs, and the timer of an automatic regeneration fires.
SpecLive ==
    /\ SpecFaults
    /\ WF_vars(StreamComplete \/ StreamThrows)
    /\ WF_vars(EffectInitSession)
    /\ WF_vars(AutoRegenTimer)

NothingPending ==
    /\ ~isDiceInterfaceActive
    /\ ~isLevelUpModalOpen
    /\ regenTimers = {}

\* C40: once a stream has been started, the chat reaches a state with no
\* stream left, the typing flag cleared and no turn marked as streaming, in
\* which, unless a dice roll, a level-up or an automatic regeneration is
\* pending, the input is enabled and handleSendMessage accepts a turn.
StreamsSettle ==
    (streams # {}) ~> (/\ streams = {}
                       /\ ~isAiTyping
                       /\ ~AnyRegenerating
                       /\ NothingPending => ~InputDisabled /\ ~SendAborts)

\* A stream has thrown, nothing else is pending and the player can type.
StreamSettledAfterThrow ==
    /\ lastOp.op = "streamError"
    /\ streams = {}
    /\ ~isAiTyping
    /\ ~AnyRegenerating
    /\ NothingPending
    /\ ~InputDisabled
    /\ ~SendAborts
====
